---- MODULE Spec2Model ----
(***************************************************************************)
(* Packet surgery of d4t4m0sh: the streaming window/postcut loops of       *)
(* mosh.py, mosh_h264.py and aviglitch_mosh.py (classic), the boundary     *)
(* loops of mosh_algorithms/avidemux_style.py and avidemux_style_all.py,   *)
(* and the materialized bloom pipeline of aviglitch_mosh.py.               *)
(*                                                                         *)
(* One action is one iteration of a demux loop: the demuxer hands over one *)
(* packet, drawn from a small set, and the loop body decides what is       *)
(* written.  `input` records the packets read, `out` the packets handed to *)
(* the muxer together with the position (src) of the input packet each one *)
(* carries.                                                                *)
(***************************************************************************)
EXTENDS Integers, Sequences, FiniteSets, TLC

\* ---------------------------------------------------------------- bounds
MaxLen == 4
MaxLenClassic == 2
MaxLenH264 == 2
MaxLenAll == 3
MaxLenAvidemux == 3
MaxLenBloom == 3
MaxSize == 2
MaxTick == 1
MaxEstTick == 3
MaxPostcut == 2
MaxClips == 2
MaxFrame == 3
MaxKeyTime == 4
MaxKeyLen == 3
MaxFps == 2
MaxPasses == 3
MaxRows == 3
TicksPerSecond == 1
FrameRateNum == 1
FrameRateDen == 2

\* ------------------------------------------------------------- constants
\* mosh_h264.py: a non-keyframe packet below this size is taken for SEI
SeiSizeLimit == 100
\* aviglitch_mosh.py: at most this many duplicates are written
DupLimit == 20
\* avidemux_style_all.py: the initial value of boundaries_left
BoundariesInit == 1000000000

\* ui_keyframe_editor.py: `postcut = min(postcut + 1, 30)` and the postcut
\* that the D key sets, `postcut = max(postcut, 3)`
PostcutLimit == 30
PostcutPreset == 3

\* Python's None (timestamps are never negative in the model)
None == 0 - 1

Max(a, b) == IF a >= b THEN a ELSE b
Min(a, b) == IF a <= b THEN a ELSE b

Ticks == 0 .. MaxTick
OptTicks == Ticks \cup {None}

\* ------------------------------------------------------------ the packets
\* av.Packet as the loops see it: is_keyframe, pts, dts, size.
Packet(k, p, d, s) == [key |-> k, pts |-> p, dts |-> d, size |-> s]

SmallSize == SeiSizeLimit - 1
LargeSize == SeiSizeLimit

\* What the demuxer of each pipeline can deliver.  The copying loops never
\* read dts, and their inputs are encoded without B-frames (-bf 0), so pts
\* and dts agree there; only mosh_h264.py reads the size; the classic loop
\* reads pts and dts separately (a frame is never presented before it is
\* decoded: pts >= dts where both are set).
Demux(v) ==
    CASE v = "h264" ->
           {Packet(TRUE, t, t, LargeSize) : t \in OptTicks}
           \cup {Packet(FALSE, t, t, s) : t \in OptTicks, s \in {SmallSize, LargeSize}}
      [] v = "classic" ->
           {Packet(k, pd[1], pd[2], LargeSize) :
              k \in BOOLEAN,
              pd \in {x \in OptTicks \X OptTicks : x[1] = None \/ x[2] = None \/ x[1] >= x[2]}}
      [] OTHER ->
           {Packet(k, t, t, LargeSize) : k \in BOOLEAN, t \in OptTicks}

\* A packet written to the muxer: the input packet it carries (src), whether
\* it is a copy made by the duplication loop, and the timestamps written.
Written(i, c, p, d) == [src |-> i, copy |-> c, pts |-> p, dts |-> d]

VARIABLES
    variant,        \* which pipeline runs
    args,           \* the arguments of the run
    pc,             \* "run" | "done" | "error"
    input,          \* packets read so far
    out,            \* packets written so far
    keep_first_i,   \* keep_first_i / keep_first_idr / keep_first / not first_keyframe_seen
    pending_drop,   \* pending_drop / pending
    removed_count,  \* removed_count / iframes_dropped
    total_packets,
    sei_removed,
    boundaries_left,
    next_pts,
    next_dts,
    dup_done,
    pframes_duplicated,
    bloom,          \* what bloom_mosh has computed
    config,         \* the wizard's configuration, in insertion order
    cmd,            \* the command build_command returns
    helper,         \* inputs and result of a keyframe_helper_core function
    multipass,      \* the multi-pass run of the wizard: its passes and the commands run
    tui             \* the keyframe editor: its rows, cursor, marks, postcut and result

vars == <<bloom, variant, args, pc, input, out, keep_first_i, pending_drop, removed_count,
          total_packets, sei_removed, boundaries_left, next_pts, next_dts,
          dup_done, pframes_duplicated, config, cmd,
          helper,
          multipass,
          tui>>

\* ---------------------------------------------------------- the arguments
NoRange == <<>>

\* An argument that int() accepts, with its value, and one it rejects
\* (TypeError/ValueError), such as the string "nope"
IntArg(n) == [isnum |-> TRUE, val |-> n]
TextArg == [isnum |-> FALSE, val |-> 0]

\* A float argument as the fraction n/d (d > 0)
Ratio(n, d) == [isnum |-> TRUE, num |-> n, den |-> d]
TextRatio == [isnum |-> FALSE, num |-> 0, den |-> 1]

DefaultArgs ==
    [join_time_sec |-> 0, no_iframe_window |-> 0, postcut |-> 0,
     postcut_rand |-> NoRange, drop_mode |-> "all_after_first", clip_count |-> 1,
     pframe_dup_start |-> <<>>, drop_start |-> None, drop_end |-> None,
     dup_at |-> None, dup_count |-> 0,
     pivot_frame |-> IntArg(0), repeat_count |-> IntArg(0), kill_ratio |-> Ratio(1, 1)]

Postcuts == (0 - 1) .. MaxPostcut

\* mosh.py / mosh_h264.py: --postcut is any int, the window is
\* [join_time_sec, join_time_sec + no_iframe_window]
WindowArgs ==
    {[DefaultArgs EXCEPT !.join_time_sec = j, !.postcut = n] :
        j \in 0 .. MaxTick, n \in Postcuts}

\* pkt_time = float(pkt.pts * vin.time_base) compared with a bound in seconds
InWindow(lo, t, hi) == lo * TicksPerSecond <= t /\ t <= hi * TicksPerSecond

\* A loop that muxes the packet it kept last once more instead of the one read
Rescaled_Stale(i, pkt) == Written(Max(1, i - 1), FALSE, pkt.pts, pkt.dts)

\* pkt.rescale_ts(vin.time_base, vout.time_base): vout is made from vin as
\* template, so both time bases are the same and the timestamps are kept
Rescaled(i, pkt) == Written(i, FALSE, pkt.pts, pkt.dts)

\* aviglitch_mosh.py classic: --drop-start/--drop-end, --dup-at/--dup-count
ClassicWindows == {<<None, None>>, <<0, 1>>, <<1, 2>>, <<1, 1>>}
ClassicDups == {<<None, 0>>, <<0, 2>>, <<1, DupLimit + 1>>, <<0, 0 - 1>>}
ClassicArgs ==
    {[DefaultArgs EXCEPT !.drop_start = w[1], !.drop_end = w[2],
                         !.dup_at = d[1], !.dup_count = d[2]] :
        w \in ClassicWindows, d \in ClassicDups}

\* avidemux_style.process: postcut, drop_mode, pframe_dup_start (None or a
\* float number of seconds, on a tick of the time base or between two ticks),
\* as the fraction <<n, d>>
NoStart == <<>>
DupStarts == {NoStart, <<1, 1>>, <<1, 3>>}
DropModes == {"all_after_first", "boundaries_only"}
AvidemuxArgs ==
    {[DefaultArgs EXCEPT !.postcut = n, !.drop_mode = m, !.pframe_dup_start = s] :
        n \in Postcuts, m \in DropModes, s \in DupStarts}

\* avidemux_style_all.process: the number of comma-separated input clips
\* that are converted and concatenated before the surgery (at least one)
ClipCounts == 1 .. MaxClips

\* avidemux_style_all.process: postcut or postcut_rand, drop_mode
PostcutRanges == {<<1, 2>>, <<0 - 1, 0>>, <<2, 1>>}
AvidemuxAllArgs ==
    {[DefaultArgs EXCEPT !.postcut = n, !.drop_mode = m, !.clip_count = c] :
        n \in Postcuts, m \in DropModes, c \in ClipCounts}
    \cup {[DefaultArgs EXCEPT !.postcut_rand = r, !.drop_mode = m, !.clip_count = c] :
        r \in PostcutRanges, m \in DropModes, c \in ClipCounts}

ArgsOf(v) ==
    CASE v = "mosh" -> WindowArgs
      [] v = "h264" -> WindowArgs
      [] v = "classic" -> ClassicArgs
      [] v = "avidemux" -> AvidemuxArgs
      [] v = "avidemux_all" -> AvidemuxAllArgs

Variants == {"mosh", "h264", "classic", "avidemux", "avidemux_all"}

\* Python's round() of the fraction n/d (d > 0, n >= 0): ties go to the even
\* neighbour
RoundHalfEven(n, d) ==
    LET q == n \div d
        r == n % d
    IN  IF 2 * r < d THEN q
        ELSE IF 2 * r > d THEN q + 1
        ELSE IF q % 2 = 0 THEN q ELSE q + 1

\* max(1, int(round((Fraction(1, 1) / fps) / time_base))) with
\* fps = FrameRateNum/FrameRateDen and time_base = 1/TicksPerSecond
frame_ticks == Max(1, RoundHalfEven(FrameRateDen * TicksPerSecond, FrameRateNum))

\* What bloom_mosh holds: the collected chunks and, once it has run, the
\* filtered and the reordered chunks, the clamped arguments and the interval
NoBloom ==
    [frame_chunks |-> <<>>, filtered_frames |-> <<>>, ordered_frames |-> <<>>,
     safe_pivot |-> 0, safe_repeat |-> 0, frame_ticks |-> 0, max_frame_size |-> 0]

\* A call of a keyframe_helper_core function: its arguments and what it returns
NoHelper ==
    [fn |-> "none", frame_idx |-> 0, frame_count |-> 0, fps |-> 1,
     times |-> <<>>, keyframe_frames |-> <<>>, result |-> <<>>]

\* A multi-pass run of execute_multipass_aviglitch: its arguments, the loop
\* counter, and the commands handed to subprocess.run with their exit codes
NoMultipass ==
    [input |-> "", final |-> [root |-> "", ext |-> ""],
     base |-> [aviglitch_prep |-> FALSE, prep_keys |-> {}, verbose |-> FALSE],
     passes |-> <<>>, i |-> 0, current_input |-> "", intermediate_files |-> <<>>,
     runs |-> <<>>, success |-> TRUE, deleted |-> {}]

\* The keyframe editor before it is opened
NoTui ==
    [rows |-> <<>>, sel |-> 0, timeline |-> TRUE, marked |-> {}, postcut |-> 0,
     previewed |-> None, drop_frames |-> <<>>]

\* ------------------------------------------------------ state at the start
Init ==
    /\ variant \in Variants
    /\ args \in ArgsOf(variant)
    /\ pc = "run"
    /\ tui = NoTui
    /\ multipass = NoMultipass
    /\ helper = NoHelper
    /\ config = <<>>
    /\ cmd = <<>>
    /\ input = <<>>
    /\ out = <<>>
    /\ keep_first_i = TRUE
    /\ pending_drop = 0
    /\ removed_count = 0
    /\ total_packets = 0
    /\ sei_removed = 0
    /\ boundaries_left =
         IF variant = "avidemux_all" /\ args.drop_mode = "boundaries_only"
           THEN BoundariesInit ELSE None
    /\ next_pts = None
    /\ next_dts = None
    /\ dup_done = FALSE
    /\ pframes_duplicated = 0
    /\ bloom = NoBloom

\* ------------------------------------------- mosh.py and mosh_h264.py
\* A loop whose postcut test is off by one
SurgeryDecision_PendingFromZero(key, first, in_window, pending) ==
    IF key
      THEN IF first THEN "keep_first"
           ELSE IF in_window THEN "drop_key"
           ELSE "keep"
      ELSE IF pending >= 0 THEN "postcut" ELSE "keep"

\* A loop that tests the window before it tests for the first keyframe
SurgeryDecision_WindowFirst(key, first, in_window, pending) ==
    IF key
      THEN IF in_window THEN "drop_key"
           ELSE IF first THEN "keep_first"
           ELSE "keep"
      ELSE IF pending > 0 THEN "postcut" ELSE "keep"

\* A loop that writes the first keyframe without noting that it has seen it
SurgeryDecision_FirstNotNoted(key, first, in_window, pending) ==
    IF key
      THEN IF first THEN "keep"
           ELSE IF in_window THEN "drop_key"
           ELSE "keep"
      ELSE IF pending > 0 THEN "postcut" ELSE "keep"

\* A loop that drops a keyframe in the window without counting it
SurgeryDecision_DropUncounted(key, first, in_window, pending) ==
    IF key
      THEN IF first THEN "keep_first"
           ELSE IF in_window THEN "postcut"
           ELSE "keep"
      ELSE IF pending > 0 THEN "postcut" ELSE "keep"

\* The branches of the loop body of packet_surgery (mosh.py 209-245) and of
\* packet_surgery_h264 (mosh_h264.py 197-233): what happens to one packet.
SurgeryDecision(key, first, in_window, pending) ==
    IF key
      THEN IF first THEN "keep_first"
           ELSE IF in_window THEN "drop_key"
           ELSE "keep"
      ELSE IF pending > 0 THEN "postcut" ELSE "keep"

\* pkt_time = float(pkt.pts * vin.time_base) if pkt.pts is not None else 0
PktTime(pkt) == IF pkt.pts # None THEN pkt.pts ELSE 0

\* The state change of one decision, shared by both window loops
WindowSurgery(pkt) ==
    LET i == Len(input) + 1
        window_start == args.join_time_sec
        window_end == args.join_time_sec + args.no_iframe_window
        d == SurgeryDecision(pkt.key, keep_first_i,
                             InWindow(window_start, PktTime(pkt), window_end),
                             pending_drop)
    IN  /\ keep_first_i' = IF d = "keep_first" THEN FALSE ELSE keep_first_i
        /\ removed_count' = IF d = "drop_key" THEN removed_count + 1 ELSE removed_count
        /\ pending_drop' = CASE d = "drop_key" -> args.postcut
                             [] d = "postcut" -> pending_drop - 1
                             [] OTHER -> pending_drop
        /\ out' = IF d \in {"keep_first", "keep"}
                    THEN Append(out, Rescaled(i, pkt)) ELSE out

\* One iteration of `for pkt in in_ct.demux(vin)` in packet_surgery
PacketSurgeryStep ==
    /\ pc = "run"
    /\ variant = "mosh"
    /\ Len(input) < MaxLen
    /\ \E pkt \in Demux("mosh") :
         /\ input' = Append(input, pkt)
         /\ total_packets' = total_packets + 1
         /\ WindowSurgery(pkt)
    /\ UNCHANGED <<bloom, variant, args, pc, sei_removed, boundaries_left, next_pts, next_dts,
                   dup_done, pframes_duplicated, config, cmd, helper, multipass, tui>>

\* is_sei = not pkt.is_keyframe and pkt.size < 100
is_sei(pkt) == ~pkt.key /\ pkt.size < SeiSizeLimit

\* One iteration of the loop of packet_surgery_h264
PacketSurgeryH264Step ==
    /\ pc = "run"
    /\ variant = "h264"
    /\ Len(input) < MaxLenH264
    /\ \E pkt \in Demux("h264") :
         /\ input' = Append(input, pkt)
         /\ total_packets' = total_packets + 1
         /\ IF is_sei(pkt)
              THEN /\ sei_removed' = sei_removed + 1
                   /\ UNCHANGED <<keep_first_i, removed_count, pending_drop, out>>
              ELSE /\ WindowSurgery(pkt)
                   /\ UNCHANGED sei_removed
    /\ UNCHANGED <<bloom, variant, args, pc, boundaries_left, next_pts, next_dts,
                   dup_done, pframes_duplicated, config, cmd, helper, multipass, tui>>

\* ------------------------------------------- aviglitch_mosh.py, classic
\* `if packet.dts is None and packet.pts is None: continue`
Malformed(pkt) == pkt.dts = None /\ pkt.pts = None

\* t = float((packet.dts if packet.dts is not None else 0) * time_base)
ClassicTime(pkt) == IF pkt.dts # None THEN pkt.dts ELSE 0

\* The I-frame removal branches (aviglitch_mosh.py 573-585)
ClassicDecision(key, first_seen, drop_start, drop_end, t) ==
    IF key
      THEN IF ~first_seen THEN "keep_first"
           ELSE IF drop_start # None /\ drop_end # None /\ InWindow(drop_start, t, drop_end)
                  THEN "drop_key"
           ELSE "keep"
      ELSE "keep"

\* A stamp_and_mux that trusts the incoming pts and does not enforce the
\* increase
StampPts_Unenforced(pkt, np) ==
    LET start == IF np = None THEN (IF pkt.pts # None THEN pkt.pts ELSE 0) ELSE np
    IN  IF pkt.pts # None THEN pkt.pts ELSE start + frame_ticks

\* stamp_and_mux: the timestamps written for pkt, given the running counters
StampPts(pkt, np) ==
    LET start == IF np = None THEN (IF pkt.pts # None THEN pkt.pts ELSE 0) ELSE np
        in_pts == IF pkt.pts # None THEN pkt.pts ELSE start + frame_ticks
    IN  Max(in_pts, start + frame_ticks)

StampDts(pkt, np, nd) ==
    LET base == IF pkt.pts # None THEN pkt.pts ELSE 0
        start == IF np = None \/ nd = None
                   THEN (IF pkt.dts # None THEN pkt.dts ELSE base) ELSE nd
        in_dts == IF pkt.dts # None THEN pkt.dts ELSE start + frame_ticks
    IN  Max(in_dts, start + frame_ticks)

\* A test that does not look at dup_done
should_duplicate_EveryTime(pkt, done, dup_at, t) ==
    dup_at # None /\ t >= dup_at * TicksPerSecond /\ ~pkt.key

\* should_duplicate (aviglitch_mosh.py 592-595)
should_duplicate(pkt, done, dup_at, t) ==
    ~done /\ dup_at # None /\ t >= dup_at * TicksPerSecond /\ ~pkt.key

\* dup_count_actual = min(dup_count, 20); range() of a negative count is empty
dup_count_actual(dup_count) == Max(0, Min(dup_count, DupLimit))

\* The copies written by `for i in range(dup_count_actual)`
Duplicates(i, n, p, d) ==
    [k \in 1 .. n |-> Written(i, TRUE, p + k * frame_ticks, d + k * frame_ticks)]

\* Parameter validation before the output is opened: sys.exit(1)
ClassicInvalid(a) ==
    a.drop_start # None /\ a.drop_end # None /\ a.drop_start >= a.drop_end

\* One iteration of `for packet in in_container.demux(video_stream)`
ClassicStep ==
    /\ pc = "run"
    /\ variant = "classic"
    /\ ~ClassicInvalid(args)
    /\ Len(input) < MaxLenClassic
    /\ \E pkt \in Demux("classic") :
         LET i == Len(input) + 1
             t == ClassicTime(pkt)
             d == ClassicDecision(pkt.key, ~keep_first_i, args.drop_start, args.drop_end, t)
             p == StampPts(pkt, next_pts)
             q == StampDts(pkt, next_pts, next_dts)
             dup == should_duplicate(pkt, dup_done, args.dup_at, t)
             n == dup_count_actual(args.dup_count)
         IN  /\ input' = Append(input, pkt)
             /\ IF Malformed(pkt)
                  THEN UNCHANGED <<total_packets, keep_first_i, removed_count, out,
                                   next_pts, next_dts, dup_done, pframes_duplicated>>
                  ELSE /\ total_packets' = total_packets + 1
                       /\ keep_first_i' = IF d = "keep_first" THEN FALSE ELSE keep_first_i
                       /\ IF d = "drop_key"
                            THEN /\ removed_count' = removed_count + 1
                                 /\ UNCHANGED <<out, next_pts, next_dts, dup_done,
                                                pframes_duplicated>>
                            ELSE /\ UNCHANGED removed_count
                                 /\ IF dup
                                      THEN /\ out' = Append(out, Written(i, FALSE, p, q))
                                                       \o Duplicates(i, n, p, q)
                                           /\ next_pts' = p + n * frame_ticks
                                           /\ next_dts' = q + n * frame_ticks
                                           /\ pframes_duplicated' = pframes_duplicated + n
                                           /\ dup_done' = TRUE
                                      ELSE /\ out' = Append(out, Written(i, FALSE, p, q))
                                           /\ next_pts' = p
                                           /\ next_dts' = q
                                           /\ UNCHANGED <<dup_done, pframes_duplicated>>
    /\ UNCHANGED <<bloom, variant, args, pc, pending_drop, sei_removed, boundaries_left, config, cmd, helper, multipass, tui>>

\* drop_start >= drop_end: the run ends before a packet is read
ClassicReject ==
    /\ pc = "run"
    /\ variant = "classic"
    /\ input = <<>>
    /\ ClassicInvalid(args)
    /\ pc' = "error"
    /\ UNCHANGED <<bloom, variant, args, input, out, keep_first_i, pending_drop, removed_count,
                   total_packets, sei_removed, boundaries_left, next_pts, next_dts,
                   dup_done, pframes_duplicated, config, cmd, helper, multipass, tui>>

\* --------------------------------------- mosh_algorithms/avidemux_style.py
\* pc = max(0, int(postcut))
AvidemuxPostcut(postcut) == Max(0, postcut)

\* pframe_dup_start_pts = int(pframe_dup_start / float(vin.time_base))
\* (int() truncates; the start is not negative here)
pframe_dup_start_pts(start) ==
    IF start = NoStart THEN None ELSE (start[1] * TicksPerSecond) \div start[2]

\* The branches of the loop body of process (avidemux_style.py 163-193);
\* `pkt.pts < pframe_dup_start_pts` raises TypeError when pkt.pts is None
AvidemuxDecision(key, first, pending, start_pts, pts) ==
    IF key
      THEN IF first THEN "keep_first" ELSE "drop_key"
      ELSE IF pending > 0
             THEN IF start_pts # None
                    THEN IF pts = None THEN "raise"
                         ELSE IF pts < start_pts THEN "keep" ELSE "postcut"
                    ELSE "postcut"
             ELSE "keep"

\* One iteration of `for pkt in in_ct.demux(vin)` in avidemux_style.process
AvidemuxStyleStep ==
    /\ pc = "run"
    /\ variant = "avidemux"
    /\ Len(input) < MaxLenAvidemux
    /\ \E pkt \in Demux("avidemux") :
         LET i == Len(input) + 1
             d == AvidemuxDecision(pkt.key, keep_first_i, pending_drop,
                                   pframe_dup_start_pts(args.pframe_dup_start), pkt.pts)
         IN  /\ input' = Append(input, pkt)
             /\ keep_first_i' = IF d = "keep_first" THEN FALSE ELSE keep_first_i
             /\ pending_drop' = CASE d = "drop_key" -> AvidemuxPostcut(args.postcut)
                                  [] d = "postcut" -> pending_drop - 1
                                  [] OTHER -> pending_drop
             /\ out' = IF d \in {"keep_first", "keep"}
                         THEN Append(out, Rescaled(i, pkt)) ELSE out
             /\ pc' = IF d = "raise" THEN "error" ELSE pc
    /\ UNCHANGED <<bloom, variant, args, removed_count, total_packets, sei_removed,
                   boundaries_left, next_pts, next_dts, dup_done, pframes_duplicated, config, cmd, helper, multipass, tui>>

\* ----------------------------------- mosh_algorithms/avidemux_style_all.py
\* n = (random.randint(*pc_range) if pc_range else int(postcut)): the values
\* n can take; random.randint(a, b) raises ValueError when a > b
PostcutDraws(a) ==
    IF a.postcut_rand # NoRange
      THEN a.postcut_rand[1] .. a.postcut_rand[2]
      ELSE {a.postcut}

\* A loop that takes the boundary branch for the wrong drop_mode
BoundaryDecision_ModesSwapped(key, first, drop_mode, left, pending) ==
    IF key
      THEN IF first THEN "keep_first"
           ELSE IF drop_mode # "boundaries_only"
                  THEN IF left > 0 THEN "drop_boundary" ELSE "keep"
                  ELSE "drop_key"
      ELSE IF pending > 0 THEN "postcut" ELSE "keep"

\* The branches of the loop body of _packet_surgery (avidemux_style_all.py 95-120)
BoundaryDecision(key, first, drop_mode, left, pending) ==
    IF key
      THEN IF first THEN "keep_first"
           ELSE IF drop_mode = "boundaries_only"
                  THEN IF left > 0 THEN "drop_boundary" ELSE "keep"
                  ELSE "drop_key"
      ELSE IF pending > 0 THEN "postcut" ELSE "keep"

\* One iteration of `for pkt in in_ct.demux(vin)` in _packet_surgery
AvidemuxAllStep ==
    /\ pc = "run"
    /\ variant = "avidemux_all"
    /\ Len(input) < MaxLenAll
    /\ \E pkt \in Demux("avidemux_all") :
         LET i == Len(input) + 1
             d == BoundaryDecision(pkt.key, keep_first_i, args.drop_mode,
                                   boundaries_left, pending_drop)
         IN  /\ input' = Append(input, pkt)
             /\ keep_first_i' = IF d = "keep_first" THEN FALSE ELSE keep_first_i
             /\ boundaries_left' = IF d = "drop_boundary"
                                     THEN boundaries_left - 1 ELSE boundaries_left
             /\ out' = IF d \in {"keep_first", "keep"}
                         THEN Append(out, Rescaled(i, pkt)) ELSE out
             /\ IF d \in {"drop_key", "drop_boundary"}
                  THEN IF PostcutDraws(args) = {}
                         THEN /\ pc' = "error"
                              /\ UNCHANGED pending_drop
                         ELSE /\ \E n \in PostcutDraws(args) : pending_drop' = Max(0, n)
                              /\ UNCHANGED pc
                  ELSE /\ pending_drop' = IF d = "postcut"
                                            THEN pending_drop - 1 ELSE pending_drop
                       /\ UNCHANGED pc
    /\ UNCHANGED <<bloom, variant, args, removed_count, total_packets, sei_removed,
                   next_pts, next_dts, dup_done, pframes_duplicated, config, cmd, helper, multipass, tui>>

\* ------------------------------------------------------------ end of run
\* The demuxer is exhausted: the containers are closed, the summary printed
Finish ==
    /\ pc = "run"
    /\ ~(variant = "classic" /\ ClassicInvalid(args))
    /\ pc' = "done"
    /\ UNCHANGED <<bloom, variant, args, input, out, keep_first_i, pending_drop, removed_count,
                   total_packets, sei_removed, boundaries_left, next_pts, next_dts,
                   dup_done, pframes_duplicated, config, cmd, helper, multipass, tui>>

Next ==
    \/ PacketSurgeryStep
    \/ PacketSurgeryH264Step
    \/ ClassicStep
    \/ ClassicReject
    \/ AvidemuxStyleStep
    \/ AvidemuxAllStep
    \/ Finish

Spec == Init /\ [][Next]_vars

\* ------------------------------------------- aviglitch_mosh.py, bloom
\* int(value), or the default when int() raises
_safe_int(value, default) == IF value.isnum THEN value.val ELSE default

\* A clamp that lets a negative pivot count from the end
_clamp_pivot_frame_Wraps(pivot_frame, frame_count) ==
    IF frame_count <= 0 THEN 0
    ELSE LET pivot == _safe_int(pivot_frame, 0)
         IN  IF pivot < 0 THEN frame_count - 1
             ELSE IF pivot >= frame_count THEN frame_count - 1
             ELSE pivot

_clamp_pivot_frame(pivot_frame, frame_count) ==
    IF frame_count <= 0 THEN 0
    ELSE LET pivot == _safe_int(pivot_frame, 0)
         IN  IF pivot < 0 THEN 0
             ELSE IF pivot >= frame_count THEN frame_count - 1
             ELSE pivot

\* A sanitizer that falls back to one repeat
_sanitize_repeat_count_DefaultOne(repeat_count) == Max(0, _safe_int(repeat_count, 1))

_sanitize_repeat_count(repeat_count) == Max(0, _safe_int(repeat_count, 0))

\* [x] * n
Repeat(x, n) == [k \in 1 .. n |-> x]

\* A reordering whose suffix starts after the pivot
build_bloom_sequence_SuffixAfterPivot(frames, pivot_frame, repeat_count) ==
    IF frames = <<>>
      THEN [result |-> <<>>, pivot |-> 0, repeat |-> _sanitize_repeat_count(repeat_count)]
      ELSE LET safe_pivot == _clamp_pivot_frame(pivot_frame, Len(frames))
               safe_repeat == _sanitize_repeat_count(repeat_count)
               prefix == SubSeq(frames, 1, safe_pivot)
               burst == Repeat(frames[safe_pivot + 1], safe_repeat)
               suffix == SubSeq(frames, safe_pivot + 2, Len(frames))
           IN  [result |-> prefix \o burst \o suffix,
                pivot |-> safe_pivot, repeat |-> safe_repeat]

\* frames[:pivot] + [frames[pivot]] * repeat + frames[pivot:]; Python counts
\* from 0, sequences here from 1
build_bloom_sequence(frames, pivot_frame, repeat_count) ==
    IF frames = <<>>
      THEN [result |-> <<>>, pivot |-> 0, repeat |-> _sanitize_repeat_count(repeat_count)]
      ELSE LET safe_pivot == _clamp_pivot_frame(pivot_frame, Len(frames))
               safe_repeat == _sanitize_repeat_count(repeat_count)
               prefix == SubSeq(frames, 1, safe_pivot)
               burst == Repeat(frames[safe_pivot + 1], safe_repeat)
               suffix == SubSeq(frames, safe_pivot + 1, Len(frames))
           IN  [result |-> prefix \o burst \o suffix,
                pivot |-> safe_pivot, repeat |-> safe_repeat]

\* FrameChunk(payload, frame_size, pts, dts); the payload is named by the
\* position of the packet it was read from
FrameChunk(i, s, p, d) == [payload |-> i, frame_size |-> s, pts |-> p, dts |-> d]

SeqMax(f) == CHOOSE m \in {f[k] : k \in DOMAIN f} : \A k \in DOMAIN f : f[k] <= m

\* max(0.0, _safe_float(kill_ratio, 1.0)) as a fraction
_safe_ratio(kill_ratio) ==
    IF ~kill_ratio.isnum THEN Ratio(1, 1)
    ELSE IF kill_ratio.num < 0 THEN Ratio(0, 1)
    ELSE kill_ratio

\* chunk.frame_size <= max_frame_size * ratio
UnderThreshold(size, max_frame_size, ratio) == size * ratio.den <= max_frame_size * ratio.num

\* A filter that applies the threshold to the leading frames as well
_filter_frame_chunks_NoHead(frame_chunks, kill_ratio, required_initial_frames) ==
    IF frame_chunks = <<>> THEN [filtered |-> <<>>, max_frame_size |-> 0]
    ELSE LET keep_head == Max(1, required_initial_frames)
             ratio == _safe_ratio(kill_ratio)
             max_frame_size == SeqMax([k \in DOMAIN frame_chunks |-> frame_chunks[k].frame_size])
             Kept(c) == UnderThreshold(c.frame_size, max_frame_size, ratio)
             filtered == SelectSeq(frame_chunks, Kept)
         IN  [filtered |-> IF filtered = <<>> THEN SubSeq(frame_chunks, 1, keep_head)
                                              ELSE filtered,
              max_frame_size |-> max_frame_size]

_filter_frame_chunks(frame_chunks, kill_ratio, required_initial_frames) ==
    IF frame_chunks = <<>> THEN [filtered |-> <<>>, max_frame_size |-> 0]
    ELSE LET keep_head == Max(1, required_initial_frames)
             ratio == _safe_ratio(kill_ratio)
             max_frame_size == SeqMax([k \in DOMAIN frame_chunks |-> frame_chunks[k].frame_size])
             Kept(c) == c.payload \in
                 {frame_chunks[k].payload : k \in
                    {j \in DOMAIN frame_chunks :
                       j <= keep_head
                       \/ UnderThreshold(frame_chunks[j].frame_size, max_frame_size, ratio)}}
             filtered == SelectSeq(frame_chunks, Kept)
         IN  [filtered |-> IF filtered = <<>> THEN SubSeq(frame_chunks, 1, keep_head)
                                              ELSE filtered,
              max_frame_size |-> max_frame_size]

\* The values of a sequence that are not None, in order
Present(vals) == SelectSeq(vals, LAMBDA v : v # None)

\* [right - left for left, right in zip(vals, vals[1:]) if right - left > 0]
PositiveDeltas(vals) ==
    {vals[k + 1] - vals[k] : k \in {j \in 1 .. Len(vals) - 1 : vals[j + 1] - vals[j] > 0}}

SetMin(S) == CHOOSE m \in S : \A x \in S : m <= x

SetMax(S) == CHOOSE m \in S : \A x \in S : x <= m

\* An estimate that takes the largest difference
_estimate_packet_ticks_Largest(frame_chunks) ==
    LET dts_values == Present([k \in DOMAIN frame_chunks |-> frame_chunks[k].dts])
        pts_values == Present([k \in DOMAIN frame_chunks |-> frame_chunks[k].pts])
        deltas == IF PositiveDeltas(dts_values) # {}
                    THEN PositiveDeltas(dts_values)
                    ELSE PositiveDeltas(pts_values)
    IN  IF deltas # {} THEN Max(1, SetMax(deltas)) ELSE frame_ticks

_estimate_packet_ticks(frame_chunks) ==
    LET dts_values == Present([k \in DOMAIN frame_chunks |-> frame_chunks[k].dts])
        pts_values == Present([k \in DOMAIN frame_chunks |-> frame_chunks[k].pts])
        deltas == IF PositiveDeltas(dts_values) # {}
                    THEN PositiveDeltas(dts_values)
                    ELSE PositiveDeltas(pts_values)
    IN  IF deltas # {} THEN Max(1, SetMin(deltas)) ELSE frame_ticks

\* _mux_video_chunks: the idx-th chunk is written at idx * frame_ticks
_mux_video_chunks(chunks, ticks) ==
    LET ft == Max(1, ticks)
        base_pts == 0
        base_dts == 0
    IN  [k \in DOMAIN chunks |->
           Written(chunks[k].payload, FALSE, base_pts + (k - 1) * ft, base_dts + (k - 1) * ft)]

\* --pivot-frame, --repeat-count, --kill-ratio
BloomArgs ==
    {[DefaultArgs EXCEPT !.pivot_frame = p, !.repeat_count = r, !.kill_ratio = k] :
        p \in {IntArg(n) : n \in (0 - 1) .. (MaxLenBloom + 1)} \cup {TextArg},
        r \in {IntArg(n) : n \in (0 - 1) .. 2} \cup {TextArg},
        k \in {Ratio(1, 1), Ratio(1, 2), Ratio(0 - 1, 1), TextRatio}}

\* What the demuxer delivers to bloom_mosh as packet number i (from 0): a
\* pseudo-packet without timestamps or without payload (bloom_mosh reads
\* nothing else of a packet it skips), or a SYNC or DELTA packet of
\* 1 or MaxSize bytes stamped with its position in the stream
DemuxBloom(i) ==
    {Packet(FALSE, None, None, MaxSize), Packet(FALSE, i, i, 0)}
    \cup {Packet(k, i, i, s) : k \in BOOLEAN, s \in {1, MaxSize}}

InitBloom ==
    /\ variant = "bloom"
    /\ args \in BloomArgs
    /\ pc = "run"
    /\ tui = NoTui
    /\ multipass = NoMultipass
    /\ helper = NoHelper
    /\ config = <<>>
    /\ cmd = <<>>
    /\ input = <<>>
    /\ out = <<>>
    /\ keep_first_i = TRUE
    /\ pending_drop = 0
    /\ removed_count = 0
    /\ total_packets = 0
    /\ sei_removed = 0
    /\ boundaries_left = None
    /\ next_pts = None
    /\ next_dts = None
    /\ dup_done = FALSE
    /\ pframes_duplicated = 0
    /\ bloom = NoBloom

\* One iteration of the loop of _collect_video_frame_chunks
CollectStep ==
    /\ pc = "run"
    /\ variant = "bloom"
    /\ Len(input) < MaxLenBloom
    /\ \E pkt \in DemuxBloom(Len(input)) :
         /\ input' = Append(input, pkt)
         /\ bloom' = IF Malformed(pkt) \/ pkt.size = 0
                       THEN bloom
                       ELSE [bloom EXCEPT !.frame_chunks =
                               Append(@, FrameChunk(Len(input) + 1, pkt.size, pkt.pts, pkt.dts))]
    /\ UNCHANGED <<variant, args, pc, out, keep_first_i, pending_drop, removed_count,
                   total_packets, sei_removed, boundaries_left, next_pts, next_dts,
                   dup_done, pframes_duplicated, config, cmd, helper, multipass, tui>>

\* bloom_mosh once the chunks are collected: filter, reorder, estimate, mux
BloomMosh ==
    /\ pc = "run"
    /\ variant = "bloom"
    /\ IF bloom.frame_chunks = <<>>
         THEN /\ pc' = "error"
              /\ UNCHANGED <<bloom, out>>
         ELSE LET f == _filter_frame_chunks(bloom.frame_chunks, args.kill_ratio, 1)
                  b == build_bloom_sequence(f.filtered, args.pivot_frame, args.repeat_count)
                  ft == _estimate_packet_ticks(f.filtered)
              IN  /\ bloom' = [bloom EXCEPT !.filtered_frames = f.filtered,
                                            !.max_frame_size = f.max_frame_size,
                                            !.ordered_frames = b.result,
                                            !.safe_pivot = b.pivot,
                                            !.safe_repeat = b.repeat,
                                            !.frame_ticks = ft]
                  /\ out' = _mux_video_chunks(b.result, ft)
                  /\ pc' = "done"
    /\ UNCHANGED <<variant, args, input, keep_first_i, pending_drop, removed_count,
                   total_packets, sei_removed, boundaries_left, next_pts, next_dts,
                   dup_done, pframes_duplicated, config, cmd, helper, multipass, tui>>

NextBloom ==
    \/ CollectStep
    \/ BloomMosh

SpecBloom == InitBloom /\ [][NextBloom]_vars

\* ----------------------------------------- frame-interval estimation alone
\* The chunks _collect_video_frame_chunks can return: at least one timestamp
EstTicks == (0 .. MaxEstTick) \cup {None}
EstChunks ==
    {FrameChunk(0, 1, p, d) : p \in EstTicks, d \in EstTicks} \ {FrameChunk(0, 1, None, None)}

InitEstimate ==
    /\ variant = "estimate"
    /\ args = DefaultArgs
    /\ pc = "run"
    /\ tui = NoTui
    /\ multipass = NoMultipass
    /\ helper = NoHelper
    /\ config = <<>>
    /\ cmd = <<>>
    /\ input = <<>>
    /\ out = <<>>
    /\ keep_first_i = TRUE
    /\ pending_drop = 0
    /\ removed_count = 0
    /\ total_packets = 0
    /\ sei_removed = 0
    /\ boundaries_left = None
    /\ next_pts = None
    /\ next_dts = None
    /\ dup_done = FALSE
    /\ pframes_duplicated = 0
    /\ \E n \in 0 .. MaxLenBloom :
         \E chunks \in [1 .. n -> EstChunks] :
           bloom = [NoBloom EXCEPT !.frame_chunks = chunks]

\* frame_ticks = _estimate_packet_ticks(...)
EstimateStep ==
    /\ pc = "run"
    /\ variant = "estimate"
    /\ bloom' = [bloom EXCEPT !.frame_ticks = _estimate_packet_ticks(bloom.frame_chunks)]
    /\ pc' = "done"
    /\ UNCHANGED <<variant, args, input, out, keep_first_i, pending_drop, removed_count,
                   total_packets, sei_removed, boundaries_left, next_pts, next_dts,
                   dup_done, pframes_duplicated, config, cmd, helper, multipass, tui>>

NextEstimate == EstimateStep

SpecEstimate == InitEstimate /\ [][NextEstimate]_vars

\* ------------------------------------------------ wizard.build_command
\* A Python value of the configuration with its str(): None, a bool, a
\* number or a string; Absent marks a key the configuration does not hold
PyNone == [kind |-> "none", text |-> "None"]
PyBool(b) == [kind |-> "bool", text |-> IF b THEN "True" ELSE "False"]
PyNum(t) == [kind |-> "num", text |-> t]
PyStr(t) == [kind |-> "str", text |-> t]
Absent == [kind |-> "absent", text |-> ""]

Item(k, v) == [key |-> k, value |-> v]

\* The configurations the wizard hands over: a dict in insertion order
WizardConfigs ==
    {SelectSeq(<<Item("ag_effect", e), Item("aviglitch_prep", pr),
                 Item("drop_start", ds), Item("drop_end", de),
                 Item("dup_at", da), Item("dup_count", dc),
                 Item("pivot_frame", pf), Item("repeat_count", rc),
                 Item("kill_ratio", kr), Item("ag_keep_audio", ka),
                 Item("verbose", vb)>>,
               LAMBDA it : it.value # Absent) :
        e \in {Absent, PyStr("bloom"), PyStr("classic")},
        pr \in {Absent, PyBool(TRUE)},
        ds \in {Absent, PyNum("2.0")},
        de \in {Absent, PyNum("4.0")},
        da \in {Absent, PyNum("3.0")},
        dc \in {Absent, PyNum("12")},
        pf \in {Absent, PyNone, PyNum("42")},
        rc \in {Absent, PyNum("20")},
        kr \in {Absent, PyNum("0.9")},
        ka \in {Absent, PyBool(TRUE), PyBool(FALSE)},
        vb \in {Absent, PyBool(TRUE)}}

\* `if value is not None and value != "" and value is not False`
Passes(value) ==
    /\ value.kind # "none"
    /\ ~(value.kind = "str" /\ value.text = "")
    /\ ~(value.kind = "bool" /\ value.text = "False")

\* bool(value) of a value that passes: only a zero is false
Truthy(value) == ~(value.kind = "num" /\ value.text \in {"0", "0.0"})

\* The if/elif chain of the aviglitch_mosh branch (wizard.py 873-892): the
\* tokens one configuration item adds to the command
AviglitchTokens(key, value) ==
    IF key = "aviglitch_prep" /\ Truthy(value) THEN <<"--prep">>
    ELSE IF key = "prep_q" THEN <<"--prep-q", value.text>>
    ELSE IF key = "prep_gop_ag" THEN <<"--prep-gop", value.text>>
    ELSE IF key = "prep_fps" THEN <<"--prep-fps", value.text>>
    ELSE IF key = "drop_start" THEN <<"--drop-start", value.text>>
    ELSE IF key = "drop_end" THEN <<"--drop-end", value.text>>
    ELSE IF key = "dup_at" THEN <<"--dup-at", value.text>>
    ELSE IF key = "dup_count" THEN <<"--dup-count", value.text>>
    ELSE IF key = "verbose" /\ Truthy(value) THEN <<"-v">>
    ELSE <<"--" \o key, value.text>>

\* `for key, value in config.items()` of the aviglitch_mosh branch
RECURSIVE AviglitchOptions(_)
AviglitchOptions(items) ==
    IF items = <<>> THEN <<>>
    ELSE (IF Passes(Head(items).value)
            THEN AviglitchTokens(Head(items).key, Head(items).value)
            ELSE <<>>)
         \o AviglitchOptions(Tail(items))

\* build_command for algo_id "aviglitch_mosh" (wizard.py 865-894)
build_command(algo_id, input_files, output, cfg) ==
    CASE algo_id = "aviglitch_mosh" ->
           <<"python3", "aviglitch_mosh.py", "--in", input_files[1], "--out", output>>
           \o AviglitchOptions(cfg)

InitWizard ==
    /\ variant = "wizard"
    /\ args = DefaultArgs
    /\ pc = "run"
    /\ tui = NoTui
    /\ multipass = NoMultipass
    /\ helper = NoHelper
    /\ config \in WizardConfigs
    /\ cmd = <<>>
    /\ input = <<>>
    /\ out = <<>>
    /\ keep_first_i = TRUE
    /\ pending_drop = 0
    /\ removed_count = 0
    /\ total_packets = 0
    /\ sei_removed = 0
    /\ boundaries_left = None
    /\ next_pts = None
    /\ next_dts = None
    /\ dup_done = FALSE
    /\ pframes_duplicated = 0
    /\ bloom = NoBloom

\* cmd = build_command("aviglitch_mosh", ["input.mp4"], "out.mp4", config)
BuildCommandStep ==
    /\ pc = "run"
    /\ variant = "wizard"
    /\ cmd' = build_command("aviglitch_mosh", <<"input.mp4">>, "out.mp4", config)
    /\ pc' = "done"
    /\ UNCHANGED <<bloom, variant, args, input, out, keep_first_i, pending_drop,
                   removed_count, total_packets, sei_removed, boundaries_left,
                   next_pts, next_dts, dup_done, pframes_duplicated, config, helper, multipass, tui>>

NextWizard == BuildCommandStep

SpecWizard == InitWizard /\ [][NextWizard]_vars

\* ------------------------------------------ tools/keyframe_helper_core.py
\* A clamp that lets an index at or past the end through
clamp_frame_KeepsOverflow(frame_idx, frame_count) ==
    IF frame_count <= 0 THEN 0
    ELSE IF frame_idx < 0 THEN 0
    ELSE frame_idx

\* clamp_frame (keyframe_helper_core.py 54-61)
clamp_frame(frame_idx, frame_count) ==
    IF frame_count <= 0 THEN 0
    ELSE IF frame_idx < 0 THEN 0
    ELSE IF frame_idx >= frame_count THEN frame_count - 1
    ELSE frame_idx

\* Python's round() of n/d for any sign: round(-x) = -round(x)
RoundSigned(n, d) == IF n >= 0 THEN RoundHalfEven(n, d) ELSE 0 - RoundHalfEven(0 - n, d)

\* sorted(s) of a set of integers
RECURSIVE Sorted(_)
Sorted(s) == IF s = {} THEN <<>> ELSE <<SetMin(s)>> \o Sorted(s \ {SetMin(s)})

\* The `out` list of keyframe_times_to_frames: a time float() rejects is
\* skipped, idx = int(round(float(ts) * fps)) is clamped and appended
RECURSIVE ClampedFrames(_, _, _)
ClampedFrames(keyframe_times, fps, frame_count) ==
    IF keyframe_times = <<>> THEN <<>>
    ELSE LET ts == Head(keyframe_times)
             rest == ClampedFrames(Tail(keyframe_times), fps, frame_count)
         IN  IF ~ts.isnum THEN rest
             ELSE <<clamp_frame(RoundSigned(ts.num * fps, ts.den), frame_count)>> \o rest

\* A conversion that returns the clamped indices as they come
keyframe_times_to_frames_Unsorted(keyframe_times, fps, frame_count) ==
    LET frames == ClampedFrames(keyframe_times, fps, frame_count)
    IN  IF frames = <<>> THEN <<0>> ELSE frames

\* keyframe_times_to_frames (keyframe_helper_core.py 163-173)
keyframe_times_to_frames(keyframe_times, fps, frame_count) ==
    LET frames == ClampedFrames(keyframe_times, fps, frame_count)
    IN  IF frames = <<>> THEN <<0>>
        ELSE Sorted({frames[k] : k \in DOMAIN frames})

Abs(x) == IF x >= 0 THEN x ELSE 0 - x

\* The loop `for kf in keyframe_frames[1:]` with its running best
RECURSIVE NearestFrom(_, _, _)
NearestFrom(best, rest, frame_idx) ==
    IF rest = <<>> THEN best
    ELSE NearestFrom(IF Abs(Head(rest) - frame_idx) < Abs(best - frame_idx)
                       THEN Head(rest) ELSE best,
                     Tail(rest), frame_idx)

\* A search that lets a later key frame win a tie
find_nearest_keyframe_frame_LastTie(frame_idx, keyframe_frames) ==
    IF keyframe_frames = <<>> THEN frame_idx
    ELSE LET d(k) == Abs(keyframe_frames[k] - frame_idx)
             best == CHOOSE k \in DOMAIN keyframe_frames :
                       /\ \A m \in DOMAIN keyframe_frames : d(k) <= d(m)
                       /\ \A m \in DOMAIN keyframe_frames : d(m) = d(k) => m <= k
         IN  keyframe_frames[best]

\* find_nearest_keyframe_frame (keyframe_helper_core.py 176-186)
find_nearest_keyframe_frame(frame_idx, keyframe_frames) ==
    IF keyframe_frames = <<>> THEN frame_idx
    ELSE NearestFrom(Head(keyframe_frames), Tail(keyframe_frames), frame_idx)

\* Sequences over a set of length at most n
SeqUpTo(s, n) == UNION {[1 .. k -> s] : k \in 0 .. n}

\* Key frame times as ffprobe reports them: whole and half seconds from
\* before the start to past the end, and a value float() rejects
KeyTimes ==
    {Ratio(n, 1) : n \in (0 - 1) .. MaxKeyTime}
    \cup {Ratio(n, 2) : n \in {m \in (0 - 1) .. MaxKeyTime : m % 2 = 1}}
    \cup {TextRatio}

HelperCalls ==
    {[NoHelper EXCEPT !.fn = "clamp_frame", !.frame_idx = i, !.frame_count = c] :
        i \in (0 - 2) .. (MaxFrame + 2), c \in (0 - 1) .. MaxFrame}
    \cup {[NoHelper EXCEPT !.fn = "keyframe_times_to_frames",
                           !.times = t, !.fps = f, !.frame_count = c] :
        t \in SeqUpTo(KeyTimes, MaxKeyLen), f \in 1 .. MaxFps, c \in 1 .. MaxFrame}
    \cup {[NoHelper EXCEPT !.fn = "find_nearest_keyframe_frame",
                           !.frame_idx = i, !.keyframe_frames = k] :
        i \in 0 .. MaxFrame, k \in SeqUpTo(0 .. MaxFrame, MaxKeyLen)}

InitHelper ==
    /\ variant = "helper"
    /\ args = DefaultArgs
    /\ pc = "run"
    /\ tui = NoTui
    /\ multipass = NoMultipass
    /\ helper \in HelperCalls
    /\ config = <<>>
    /\ cmd = <<>>
    /\ input = <<>>
    /\ out = <<>>
    /\ keep_first_i = TRUE
    /\ pending_drop = 0
    /\ removed_count = 0
    /\ total_packets = 0
    /\ sei_removed = 0
    /\ boundaries_left = None
    /\ next_pts = None
    /\ next_dts = None
    /\ dup_done = FALSE
    /\ pframes_duplicated = 0
    /\ bloom = NoBloom

HelperReturns(result) ==
    /\ helper' = [helper EXCEPT !.result = result]
    /\ pc' = "done"
    /\ UNCHANGED <<bloom, variant, args, input, out, keep_first_i, pending_drop,
                   removed_count, total_packets, sei_removed, boundaries_left,
                   next_pts, next_dts, dup_done, pframes_duplicated, config, cmd, multipass, tui>>

\* clamp_frame(frame_idx, frame_count)
ClampFrameStep ==
    /\ pc = "run"
    /\ helper.fn = "clamp_frame"
    /\ HelperReturns(<<clamp_frame(helper.frame_idx, helper.frame_count)>>)

\* keyframe_times_to_frames(keyframe_times, video_info)
KeyframeTimesToFramesStep ==
    /\ pc = "run"
    /\ helper.fn = "keyframe_times_to_frames"
    /\ HelperReturns(keyframe_times_to_frames(helper.times, helper.fps, helper.frame_count))

\* find_nearest_keyframe_frame(frame_idx, keyframe_frames)
FindNearestStep ==
    /\ pc = "run"
    /\ helper.fn = "find_nearest_keyframe_frame"
    /\ HelperReturns(<<find_nearest_keyframe_frame(helper.frame_idx, helper.keyframe_frames)>>)

NextHelper ==
    \/ ClampFrameStep
    \/ KeyframeTimesToFramesStep
    \/ FindNearestStep

SpecHelper == InitHelper /\ [][NextHelper]_vars

\* ------------------------------------------------- wizard.py, multi-pass
\* root, ext = os.path.splitext(final_output): a path is kept as its two parts
PathOf(f) == f.root \o f.ext

\* f"{root}_pass{i}{ext}"
IntermediatePath(f, i) == f.root \o "_pass" \o ToString(i) \o f.ext

\* One pass of configure_pass_params (wizard.py 636-680): a drop window, a
\* duplication, or both; a pass with neither gets a drop window
PassConfigs ==
    {[drop |-> d, dup |-> u] :
        d \in {<<>>, <<"2.0", "4.0">>, <<"1.0", "3.0">>}, u \in {<<>>, <<"3.0", "12">>}}
    \ {[drop |-> <<>>, dup |-> <<>>]}

\* The base configuration of configure_options: aviglitch_prep, the prep
\* keys that are present, verbose
PrepValue(k) ==
    CASE k = "prep_q" -> "3"
      [] k = "prep_gop_ag" -> "250"
      [] k = "prep_fps" -> "30"
BaseConfigs ==
    {[aviglitch_prep |-> p, prep_keys |-> ks, verbose |-> v] :
        p \in BOOLEAN,
        ks \in {{}, {"prep_q"}, {"prep_q", "prep_gop_ag", "prep_fps"}},
        v \in BOOLEAN}

\* main asks for 2..10 passes
PassLists == UNION {[1 .. n -> PassConfigs] : n \in 2 .. MaxPasses}

\* The file the user selected: another file, the final output itself, or a
\* file that has the name of the first intermediate file
FinalOutput == [root |-> "out", ext |-> ".avi"]
InputFiles == {"in.avi", PathOf(FinalOutput), IntermediatePath(FinalOutput, 1)}

InitMultipass ==
    /\ variant = "multipass"
    /\ args = DefaultArgs
    /\ pc = "run"
    /\ tui = NoTui
    /\ \E inp \in InputFiles, b \in BaseConfigs, ps \in PassLists :
         multipass = [NoMultipass EXCEPT !.input = inp, !.final = FinalOutput,
                                         !.base = b, !.passes = ps,
                                         !.current_input = inp]
    /\ helper = NoHelper
    /\ input = <<>>
    /\ out = <<>>
    /\ keep_first_i = TRUE
    /\ pending_drop = 0
    /\ removed_count = 0
    /\ total_packets = 0
    /\ sei_removed = 0
    /\ boundaries_left = None
    /\ next_pts = None
    /\ next_dts = None
    /\ dup_done = FALSE
    /\ pframes_duplicated = 0
    /\ bloom = NoBloom
    /\ config = <<>>
    /\ cmd = <<>>

\* The optional part `if key in base_config: cmd.extend([flag, str(value)])`
PrepOption(base, key, flag) ==
    IF key \in base.prep_keys THEN <<flag, PrepValue(key)>> ELSE <<>>

\* A loop that adds the prep options to every pass
PassCommand_PrepEveryPass(i, current_input, pass_output, base, pass_config) ==
    <<"python3", "aviglitch_mosh.py", "--in", current_input, "--out", pass_output>>
    \o (IF base.aviglitch_prep
          THEN <<"--prep">> \o PrepOption(base, "prep_q", "--prep-q")
                 \o PrepOption(base, "prep_gop_ag", "--prep-gop")
                 \o PrepOption(base, "prep_fps", "--prep-fps")
          ELSE <<>>)
    \o (IF pass_config.drop # <<>>
          THEN <<"--drop-start", pass_config.drop[1], "--drop-end", pass_config.drop[2]>>
          ELSE <<>>)
    \o (IF pass_config.dup # <<>>
          THEN <<"--dup-at", pass_config.dup[1], "--dup-count", pass_config.dup[2]>>
          ELSE <<>>)
    \o (IF base.verbose THEN <<"-v">> ELSE <<>>)

\* The command of pass i (wizard.py 953-977)
PassCommand(i, current_input, pass_output, base, pass_config) ==
    <<"python3", "aviglitch_mosh.py", "--in", current_input, "--out", pass_output>>
    \o (IF i = 1 /\ base.aviglitch_prep
          THEN <<"--prep">> \o PrepOption(base, "prep_q", "--prep-q")
                 \o PrepOption(base, "prep_gop_ag", "--prep-gop")
                 \o PrepOption(base, "prep_fps", "--prep-fps")
          ELSE <<>>)
    \o (IF pass_config.drop # <<>>
          THEN <<"--drop-start", pass_config.drop[1], "--drop-end", pass_config.drop[2]>>
          ELSE <<>>)
    \o (IF pass_config.dup # <<>>
          THEN <<"--dup-at", pass_config.dup[1], "--dup-count", pass_config.dup[2]>>
          ELSE <<>>)
    \o (IF base.verbose THEN <<"-v">> ELSE <<>>)

ReturnCodes == {0, 1}

\* One iteration of `for i, pass_config in enumerate(passes, 1)`: the command
\* is built and run; a non-zero exit code leaves the loop and sys.exit(1)
\* ends the run
MultipassStep ==
    /\ pc = "run"
    /\ variant = "multipass"
    /\ multipass.i < Len(multipass.passes)
    /\ \E returncode \in ReturnCodes :
         LET i == multipass.i + 1
             last == i = Len(multipass.passes)
             pass_output == IF last THEN PathOf(multipass.final)
                            ELSE IntermediatePath(multipass.final, i)
             command == PassCommand(i, multipass.current_input, pass_output,
                                    multipass.base, multipass.passes[i])
         IN  /\ multipass' =
                  [multipass EXCEPT
                     !.i = i,
                     !.intermediate_files = IF last THEN @ ELSE Append(@, pass_output),
                     !.runs = Append(@, [cmd |-> command, returncode |-> returncode]),
                     !.success = (returncode = 0),
                     !.current_input = IF returncode = 0 THEN pass_output ELSE @]
             /\ pc' = IF returncode # 0 THEN "error" ELSE pc
    /\ UNCHANGED <<bloom, variant, args, input, out, keep_first_i, pending_drop, removed_count,
                   total_packets, sei_removed, boundaries_left, next_pts, next_dts,
                   dup_done, pframes_duplicated, config, cmd, helper, tui>>

\* After the loop, all passes done: the summary, and the intermediate files
\* are deleted when the user says so
MultipassSummary ==
    /\ pc = "run"
    /\ variant = "multipass"
    /\ multipass.i = Len(multipass.passes)
    /\ multipass.success
    /\ \E cleanup \in BOOLEAN :
         multipass' = [multipass EXCEPT
                         !.deleted = IF cleanup
                                       THEN {multipass.intermediate_files[k] :
                                               k \in DOMAIN multipass.intermediate_files}
                                       ELSE {}]
    /\ pc' = "done"
    /\ UNCHANGED <<bloom, variant, args, input, out, keep_first_i, pending_drop, removed_count,
                   total_packets, sei_removed, boundaries_left, next_pts, next_dts,
                   dup_done, pframes_duplicated, config, cmd, helper, tui>>

NextMultipass == MultipassStep \/ MultipassSummary

SpecMultipass == InitMultipass /\ [][NextMultipass]_vars

\* ------------------------------------ mosh_algorithms/ui_keyframe_editor.py
\* rows of _collect_keyframes: row i (from 0) is frame i, with the flag
\* `key or pict_name in ("I", "SI", "IDR")`; process refuses an empty list
RowLists ==
    UNION {[1 .. n -> BOOLEAN] : n \in 1 .. MaxRows}

\* rows[i] for a Python index i, and len(rows)
RowCount(rows) == Len(rows)
FrameIdx(rows, i) == i
IsKeyRow(rows, i) == rows[i + 1]

\* key_idx of _collect_keyframes, in ascending order
key_rows(rows) == Sorted({i \in 0 .. RowCount(rows) - 1 : IsKeyRow(rows, i)})

\* marked at the start, and after A or D: every I row but frame 0
MarkAll(rows) ==
    {i \in 0 .. RowCount(rows) - 1 : FrameIdx(rows, i) # 0 /\ IsKeyRow(rows, i)}

\* The binary search of jump_next_i: the last position of keys (from 0) whose
\* row is <= cur, 0 when there is none
RECURSIVE SearchPos(_, _, _, _, _)
SearchPos(keys, cur, left, right, pos) ==
    IF left > right THEN pos
    ELSE LET mid == (left + right) \div 2
         IN  IF keys[mid + 1] <= cur
               THEN SearchPos(keys, cur, mid + 1, right, mid)
               ELSE SearchPos(keys, cur, left, mid - 1, pos)

\* jump_next_i(cur, direction) (ui_keyframe_editor.py 129-145)
jump_next_i(keys, cur, direction) ==
    IF keys = <<>> THEN cur
    ELSE LET pos == SearchPos(keys, cur, 0, Len(keys) - 1, 0)
             moved == Max(0, Min(Len(keys) - 1,
                                 pos + (IF direction > 0 THEN 1 ELSE 0 - 1)))
         IN  keys[moved + 1]

\* An editor whose SPACE key toggles the first row as well
ToggleMark_AnyRow(marked, sel) ==
    IF sel \in marked THEN marked \ {sel} ELSE marked \cup {sel}

\* SPACE, x, X: toggle the row under the cursor, never row 0
ToggleMark(marked, sel) ==
    IF sel # 0
      THEN IF sel \in marked THEN marked \ {sel} ELSE marked \cup {sel}
      ELSE marked

\* drop_frames on ENTER (ui_keyframe_editor.py 210-216)
DropFrames(rows, marked, postcut) ==
    Sorted(UNION {{FrameIdx(rows, i) + k : k \in 0 .. postcut} :
                    i \in {m \in marked : FrameIdx(rows, m) # 0}})

InitTui ==
    /\ variant = "tui"
    /\ args = DefaultArgs
    /\ pc = "run"
    /\ \E rows \in RowLists :
         tui = [NoTui EXCEPT !.rows = rows, !.marked = MarkAll(rows)]
    /\ multipass = NoMultipass
    /\ helper = NoHelper
    /\ input = <<>>
    /\ out = <<>>
    /\ keep_first_i = TRUE
    /\ pending_drop = 0
    /\ removed_count = 0
    /\ total_packets = 0
    /\ sei_removed = 0
    /\ boundaries_left = None
    /\ next_pts = None
    /\ next_dts = None
    /\ dup_done = FALSE
    /\ pframes_duplicated = 0
    /\ bloom = NoBloom
    /\ config = <<>>
    /\ cmd = <<>>

\* What a key press leaves alone outside the editor
TuiFrame ==
    UNCHANGED <<bloom, variant, args, input, out, keep_first_i, pending_drop, removed_count,
                total_packets, sei_removed, boundaries_left, next_pts, next_dts,
                dup_done, pframes_duplicated, config, cmd, helper, multipass>>

TuiOpen == pc = "run" /\ variant = "tui"

\* q, Q: return None, None
KeyQuit ==
    /\ TuiOpen
    /\ pc' = "cancelled"
    /\ UNCHANGED tui
    /\ TuiFrame

\* KEY_UP, k
KeyUp ==
    /\ TuiOpen
    /\ tui' = [tui EXCEPT !.sel = Max(0, tui.sel - 1)]
    /\ UNCHANGED pc
    /\ TuiFrame

\* KEY_DOWN, j
KeyDown ==
    /\ TuiOpen
    /\ tui' = [tui EXCEPT !.sel = Min(RowCount(tui.rows) - 1, tui.sel + 1)]
    /\ UNCHANGED pc
    /\ TuiFrame

\* t, T
KeyTimeline ==
    /\ TuiOpen
    /\ tui' = [tui EXCEPT !.timeline = ~tui.timeline]
    /\ UNCHANGED pc
    /\ TuiFrame

\* g and G
KeyJump ==
    /\ TuiOpen
    /\ \E direction \in {0 - 1, 1} :
         tui' = [tui EXCEPT !.sel = jump_next_i(key_rows(tui.rows), tui.sel, direction)]
    /\ UNCHANGED pc
    /\ TuiFrame

\* SPACE, x, X
KeyToggle ==
    /\ TuiOpen
    /\ tui' = [tui EXCEPT !.marked = ToggleMark(tui.marked, tui.sel)]
    /\ UNCHANGED pc
    /\ TuiFrame

\* a, A
KeyAll ==
    /\ TuiOpen
    /\ tui' = [tui EXCEPT !.marked = MarkAll(tui.rows)]
    /\ UNCHANGED pc
    /\ TuiFrame

\* n, N
KeyNone ==
    /\ TuiOpen
    /\ tui' = [tui EXCEPT !.marked = {}]
    /\ UNCHANGED pc
    /\ TuiFrame

\* + and =
KeyPlus ==
    /\ TuiOpen
    /\ tui' = [tui EXCEPT !.postcut = Min(tui.postcut + 1, PostcutLimit)]
    /\ UNCHANGED pc
    /\ TuiFrame

\* - and _
KeyMinus ==
    /\ TuiOpen
    /\ tui' = [tui EXCEPT !.postcut = Max(tui.postcut - 1, 0)]
    /\ UNCHANGED pc
    /\ TuiFrame

\* d, D
KeyDoAll ==
    /\ TuiOpen
    /\ tui' = [tui EXCEPT !.marked = MarkAll(tui.rows),
                          !.postcut = Max(tui.postcut, PostcutPreset)]
    /\ UNCHANGED pc
    /\ TuiFrame

\* p, P: the frame under the cursor is shown
KeyPreview ==
    /\ TuiOpen
    /\ tui' = [tui EXCEPT !.previewed = FrameIdx(tui.rows, tui.sel)]
    /\ UNCHANGED pc
    /\ TuiFrame

\* ENTER: return sorted(set(drop_frames)), postcut
KeyEnter ==
    /\ TuiOpen
    /\ tui' = [tui EXCEPT !.drop_frames = DropFrames(tui.rows, tui.marked, tui.postcut)]
    /\ pc' = "done"
    /\ TuiFrame

NextTui ==
    \/ KeyQuit
    \/ KeyUp
    \/ KeyDown
    \/ KeyTimeline
    \/ KeyJump
    \/ KeyToggle
    \/ KeyAll
    \/ KeyNone
    \/ KeyPlus
    \/ KeyMinus
    \/ KeyDoAll
    \/ KeyPreview
    \/ KeyEnter

SpecTui == InitTui /\ [][NextTui]_vars

\* =========================================================== properties
\* Positions of `input` whose packet was written at least once
EmittedIdx == {out[j].src : j \in DOMAIN out}

\* A packet the loop classifies: the classic loop skips a packet without
\* timestamps before it looks at the frame type
Classified(pkt) == ~(variant = "classic" /\ Malformed(pkt))

\* Positions of the SYNC and of the DELTA packets read so far
SyncIdx == {k \in DOMAIN input : input[k].key /\ Classified(input[k])}
DeltaIdx == {k \in DOMAIN input : ~input[k].key /\ Classified(input[k])}
FirstSyncIdx == CHOOSE k \in SyncIdx : \A m \in SyncIdx : k <= m

\* Positions of `out` that carry a SYNC packet
OutSync == {j \in DOMAIN out : input[out[j].src].key}

WindowVariants == {"mosh", "h264", "classic"}

\* The drop window of the run, in seconds, and whether the run has one
HasWindow == variant \in {"mosh", "h264"}
               \/ (variant = "classic" /\ args.drop_start # None /\ args.drop_end # None)
WinStart == IF variant = "classic" THEN args.drop_start ELSE args.join_time_sec
WinEnd == IF variant = "classic" THEN args.drop_end
          ELSE args.join_time_sec + args.no_iframe_window

\* The time the loop compares with the window
LoopTime(pkt) == IF variant = "classic" THEN ClassicTime(pkt) ELSE PktTime(pkt)

\* C1: in the window/postcut loops (mosh.py, mosh_h264.py, classic) the first
\* SYNC packet of the input is written, and no SYNC packet is written before
\* it: the first SYNC packet of the output is the first SYNC packet of the
\* input, whatever the window and the postcut count.
C1_FirstSyncKept ==
    (variant \in WindowVariants /\ SyncIdx # {}) =>
        \E j \in DOMAIN out :
            /\ out[j].src = FirstSyncIdx
            /\ \A m \in OutSync : j <= m

\* C1 witness: the first SYNC packet lies inside the drop window, a later
\* SYNC packet in the window was dropped, and the first one is in the output
C1_Witness ==
    /\ variant \in WindowVariants
    /\ HasWindow
    /\ SyncIdx # {}
    /\ InWindow(WinStart, LoopTime(input[FirstSyncIdx]), WinEnd)
    /\ removed_count > 0
    /\ FirstSyncIdx \in EmittedIdx

\* C2 (as claimed): whenever the decode times read so far are non-decreasing
\* (missing ones aside), every two adjacent written packets that carry a
\* decode time have strictly increasing decode times.
C2_StrictlyIncreasingDts ==
    (\A a, b \in DOMAIN input :
        (a < b /\ input[a].dts # None /\ input[b].dts # None)
            => input[a].dts <= input[b].dts)
    => \A j \in 1 .. Len(out) - 1 :
         (out[j].dts # None /\ out[j + 1].dts # None) => out[j + 1].dts > out[j].dts

\* C3: build_bloom_sequence returns input[0:p] ++ [input[p]] * r ++ input[p:]
\* for the clamped pivot p and the clamped repeat count r: r more elements,
\* the first p unchanged, then r times input[p], then input[p:] in order.
C3_BloomSequence ==
    (variant = "bloom" /\ pc = "done") =>
        LET frames == bloom.filtered_frames
            res == bloom.ordered_frames
            p == bloom.safe_pivot
            r == bloom.safe_repeat
        IN  /\ frames # <<>>
            /\ p \in 0 .. Len(frames) - 1
            /\ r >= 0
            /\ Len(res) = Len(frames) + r
            /\ \A k \in 1 .. p : res[k] = frames[k]
            /\ \A k \in p + 1 .. p + r : res[k] = frames[p + 1]
            /\ \A k \in p + r + 1 .. Len(res) : res[k] = frames[k - r]

\* C3 witness: a burst of at least two copies of a pivot that is neither the
\* first nor the last of three frames
C3_Witness ==
    /\ variant = "bloom"
    /\ pc = "done"
    /\ Len(bloom.filtered_frames) >= 3
    /\ bloom.safe_pivot = 1
    /\ bloom.safe_repeat >= 2

\* C4: with repeat_count 0, negative or not a number, build_bloom_sequence
\* returns its input unchanged with a repeat count of 0, and bloom_mosh does
\* not fail (it fails only when no packet was collected).
C4_ZeroRepeatIdentity ==
    variant = "bloom" =>
        /\ (pc = "error" => bloom.frame_chunks = <<>>)
        /\ (pc = "done" /\ (~args.repeat_count.isnum \/ args.repeat_count.val <= 0)) =>
               /\ bloom.ordered_frames = bloom.filtered_frames
               /\ bloom.safe_repeat = 0

\* C4 witness: a run over two or more frames whose repeat count is no number
C4_Witness ==
    /\ variant = "bloom"
    /\ pc = "done"
    /\ ~args.repeat_count.isnum
    /\ Len(bloom.filtered_frames) >= 2
    /\ bloom.ordered_frames = bloom.filtered_frames

\* C5: for a non-empty input of n frames the pivot used lies in 0 .. n-1: a
\* requested pivot >= n gives n-1, a pivot < 0 gives 0, and a pivot that is
\* no number is accepted as well.
C5_PivotClamped ==
    (variant = "bloom" /\ pc = "done") =>
        LET n == Len(bloom.filtered_frames)
            p == bloom.safe_pivot
        IN  /\ n > 0
            /\ 0 <= p /\ p <= n - 1
            /\ (args.pivot_frame.isnum /\ args.pivot_frame.val >= n) => p = n - 1
            /\ (args.pivot_frame.isnum /\ args.pivot_frame.val < 0) => p = 0

\* C5 witness: a pivot past the end of two or more frames, clamped to the last
C5_Witness ==
    /\ variant = "bloom"
    /\ pc = "done"
    /\ Len(bloom.filtered_frames) >= 2
    /\ args.pivot_frame.isnum
    /\ args.pivot_frame.val > Len(bloom.filtered_frames)
    /\ bloom.safe_pivot = Len(bloom.filtered_frames) - 1

\* The timestamps of the estimated chunks
DtsOf(chunks) == [k \in DOMAIN chunks |-> chunks[k].dts]
PtsOf(chunks) == [k \in DOMAIN chunks |-> chunks[k].pts]

\* decode_time, or presentation_time where decode_time is absent
EffectiveOf(chunks) ==
    [k \in DOMAIN chunks |-> IF chunks[k].dts # None THEN chunks[k].dts ELSE chunks[k].pts]

\* The positive differences between one present value and the next present one
SuccessiveDeltas(vals) ==
    {vals[pr[2]] - vals[pr[1]] :
        pr \in {q \in (DOMAIN vals) \X (DOMAIN vals) :
                  /\ q[1] < q[2]
                  /\ vals[q[1]] # None
                  /\ vals[q[2]] # None
                  /\ \A m \in q[1] + 1 .. q[2] - 1 : vals[m] = None
                  /\ vals[q[2]] > vals[q[1]]}}

IsLeast(r, S) == r \in S /\ \A x \in S : r <= x

\* C6 (as claimed): the estimate is the least positive difference between
\* successive packet times, the time of a packet being its decode_time, or
\* its presentation_time where the decode_time is absent.
C6_PerPacketFallback ==
    (variant = "estimate" /\ pc = "done") =>
        LET D == SuccessiveDeltas(EffectiveOf(bloom.frame_chunks))
        IN  D # {} => IsLeast(bloom.frame_ticks, D)

\* C6 (amended): the estimate is the least positive difference between
\* successive present decode_time values; presentation_time is used only when
\* no such difference exists in the whole sequence, and then in the same way;
\* with one positive difference d between all decode times the estimate is d.
C6_MinPositiveDelta ==
    (variant = "estimate" /\ pc = "done") =>
        LET chunks == bloom.frame_chunks
            dd == SuccessiveDeltas(DtsOf(chunks))
            pd == SuccessiveDeltas(PtsOf(chunks))
            r == bloom.frame_ticks
        IN  /\ dd # {} => IsLeast(r, dd)
            /\ (dd = {} /\ pd # {}) => IsLeast(r, pd)
            /\ \A d \in 1 .. MaxEstTick :
                 (/\ Len(chunks) >= 2
                  /\ \A k \in DOMAIN chunks : chunks[k].dts # None
                  /\ \A k \in 1 .. Len(chunks) - 1 : chunks[k + 1].dts - chunks[k].dts = d)
                 => r = d

\* C6 witness: decode times with two different positive differences around a
\* packet without decode time, whose presentation time would give less
C6_Witness ==
    /\ variant = "estimate"
    /\ pc = "done"
    /\ Cardinality(SuccessiveDeltas(DtsOf(bloom.frame_chunks))) >= 1
    /\ \E k \in DOMAIN bloom.frame_chunks : bloom.frame_chunks[k].dts = None
    /\ SuccessiveDeltas(EffectiveOf(bloom.frame_chunks)) # {}
    /\ ~IsLeast(bloom.frame_ticks, SuccessiveDeltas(EffectiveOf(bloom.frame_chunks)))

\* C7 (as claimed): after the first SYNC packet, a SYNC packet with a
\* presentation time is dropped exactly when that presentation time lies in
\* [window_start, window_end].
C7_DroppedIffPtsInWindow ==
    variant \in WindowVariants =>
        \A k \in SyncIdx :
            (k # FirstSyncIdx /\ input[k].pts # None) =>
                ((k \notin EmittedIdx)
                    <=> (HasWindow /\ InWindow(WinStart, input[k].pts, WinEnd)))

\* C8 (as claimed): a DELTA packet read while pending_drop is not above 0 is
\* written.
C8_DeltaKeptWithoutPending ==
    [][(/\ Len(input') = Len(input) + 1
        /\ ~input'[Len(input')].key
        /\ Classified(input'[Len(input')])
        /\ ~(pending_drop > 0))
       => Len(input') \in {out'[j].src : j \in DOMAIN out'}]_vars

\* The runs with one fixed postcut count, and that count once armed
FixedPostcut ==
    \/ variant \in {"mosh", "h264"}
    \/ (variant = "avidemux" /\ args.pframe_dup_start = NoStart)
    \/ (variant = "avidemux_all" /\ args.postcut_rand = NoRange)
ArmedCount == IF variant \in {"mosh", "h264"} THEN args.postcut ELSE Max(0, args.postcut)

\* The DELTA packets the postcut counter sees (mosh_h264.py filters SEI-like
\* packets before), and the SYNC packets that were dropped
CountedDelta == {k \in DeltaIdx : ~(variant = "h264" /\ is_sei(input[k]))}
DroppedSync == SyncIdx \ EmittedIdx
CountedBetween(i, k) == Cardinality({m \in CountedDelta : i < m /\ m <= k})
LastDroppedSyncBefore(k) ==
    CHOOSE i \in DroppedSync : i < k /\ \A m \in DroppedSync : m < k => m <= i

\* C9: with a postcut count n, the n DELTA packets that follow a dropped SYNC
\* packet are not written; the counter falls by one with each of them; from
\* the (n+1)-th on (until the next dropped SYNC) the DELTA packets are written.
C9_PostcutBurst ==
    FixedPostcut =>
        /\ \A i \in DroppedSync : \A k \in CountedDelta :
             (i < k /\ CountedBetween(i, k) <= ArmedCount) => k \notin EmittedIdx
        /\ \A k \in CountedDelta :
             IF \E i \in DroppedSync : i < k
               THEN (k \in EmittedIdx)
                      <=> (CountedBetween(LastDroppedSyncBefore(k), k) > ArmedCount)
               ELSE k \in EmittedIdx
        /\ IF DroppedSync = {}
             THEN pending_drop = 0
             ELSE LET left == ArmedCount
                              - CountedBetween(LastDroppedSyncBefore(Len(input) + 1), Len(input))
                  IN  pending_drop = IF left > 0 THEN left ELSE Min(ArmedCount, 0)

\* C9 witness: a SYNC packet was dropped with a count of at least 1, the
\* counter has run down, and a later DELTA packet is written again
C9_Witness ==
    /\ variant = "mosh"
    /\ args.postcut >= 1
    /\ pending_drop = 0
    /\ \E i \in DroppedSync : \E k \in CountedDelta :
         /\ i < k
         /\ k \in EmittedIdx
         /\ CountedBetween(i, k) = args.postcut + 1

\* The boundary loops run with drop_mode all_after_first
AllAfterFirst == variant \in {"avidemux", "avidemux_all"} /\ args.drop_mode = "all_after_first"

\* C10: with drop_mode all_after_first the only SYNC packet written is the
\* first SYNC packet of the input; every later one is dropped.
C10_OnlyFirstSync ==
    AllAfterFirst =>
        IF SyncIdx = {}
          THEN OutSync = {}
          ELSE /\ Cardinality(OutSync) = 1
               /\ \A j \in OutSync : out[j].src = FirstSyncIdx

\* C10 witness: a finished run over three or more SYNC packets
C10_Witness ==
    /\ variant = "avidemux_all"
    /\ args.drop_mode = "all_after_first"
    /\ pc = "done"
    /\ Cardinality(SyncIdx) >= 3
    /\ Cardinality(OutSync) = 1

\* C11 (as claimed): in _packet_surgery with drop_mode boundaries_only over
\* clip_count concatenated clips, the counter allows clip_count - 1 drops:
\* at most clip_count - 1 SYNC packets of the input are missing from the
\* output.
C11_AtMostClipCountMinusOneDropped ==
    (variant = "avidemux_all" /\ args.drop_mode = "boundaries_only") =>
        Cardinality(SyncIdx \ EmittedIdx) <= args.clip_count - 1

\* C12 (as claimed): in every streaming loop a packet with neither pts nor
\* dts is never written to the output (so it adds nothing to the packets
\* emitted).
C12_MalformedNeverWritten ==
    \A k \in DOMAIN input : Malformed(input[k]) => k \notin EmittedIdx

\* The original timestamp of a collected chunk: its dts, else its pts
OriginalTime(chunk) == IF chunk.dts # None THEN chunk.dts ELSE chunk.pts

\* C13 (as claimed): the j-th packet bloom_mosh writes (from 0) carries
\* pts = dts = base_time + j * frame_ticks, where base_time is the original
\* timestamp of the first retained chunk (a collected chunk always has one).
C13_RebasedFromFirstTimestamp ==
    (variant = "bloom" /\ pc = "done") =>
        LET base_time == OriginalTime(bloom.filtered_frames[1])
        IN  \A j \in DOMAIN out :
              /\ out[j].pts = base_time + (j - 1) * bloom.frame_ticks
              /\ out[j].dts = base_time + (j - 1) * bloom.frame_ticks

\* The kill ratio as a fraction: the value given, 1.0 where float() rejects it
GivenRatio == IF args.kill_ratio.isnum THEN args.kill_ratio ELSE Ratio(1, 1)

\* Whether a chunk's size exceeds max_size * kill_ratio over the collected chunks
ExceedsThreshold(chunk) ==
    LET max_size == SeqMax([k \in DOMAIN bloom.frame_chunks |->
                              bloom.frame_chunks[k].frame_size])
    IN  chunk.frame_size * GivenRatio.den > max_size * GivenRatio.num

\* C14: the filtered sequence bloom_mosh works on holds exactly the first
\* collected chunk (required_initial_frames = 1) and the chunks whose size
\* does not exceed max_size * kill_ratio, in input order; it is never empty,
\* and it is the first chunk alone when every chunk exceeds the threshold.
C14_SizeFilter ==
    (variant = "bloom" /\ pc = "done") =>
        LET all == bloom.frame_chunks
            f == bloom.filtered_frames
        IN  /\ f # <<>>
            /\ {f[k] : k \in DOMAIN f} =
                   {all[k] : k \in {j \in DOMAIN all : j = 1 \/ ~ExceedsThreshold(all[j])}}
            /\ \A a, b \in DOMAIN f : a < b => f[a].payload < f[b].payload
            /\ (\A k \in DOMAIN all : ExceedsThreshold(all[k])) => f = <<all[1]>>

\* C14 witness: the first chunk exceeds the threshold and is kept, a later
\* chunk exceeds it and is removed, and another later chunk is kept
C14_Witness ==
    /\ variant = "bloom"
    /\ pc = "done"
    /\ ExceedsThreshold(bloom.frame_chunks[1])
    /\ bloom.filtered_frames[1] = bloom.frame_chunks[1]
    /\ Len(bloom.filtered_frames) = 2
    /\ Len(bloom.frame_chunks) = 3

\* C15 (as claimed): when a run has ended, the first SYNC packet of the input
\* is among the packets written, wherever it sits in the input; checked on
\* bloom_mosh with its size filter.
C15_FirstSyncAlwaysPresent ==
    (pc = "done" /\ SyncIdx # {}) => FirstSyncIdx \in EmittedIdx

\* C16 (as claimed): whatever the drop window, the counts and the random
\* postcut range given to it, a run of mosh.py, mosh_h264.py, classic or
\* avidemux_style_all does not fail.
C16_NoParameterFailsTheRun ==
    variant \in {"mosh", "h264", "classic", "avidemux_all"} => pc # "error"

\* C17 (as claimed): the frame interval bloom_mosh re-stamps with is the one
\* estimated on all the collected chunks, whatever the size filter removed.
C17_TicksFromUnfilteredInput ==
    (variant = "bloom" /\ pc = "done") =>
        bloom.frame_ticks = _estimate_packet_ticks(bloom.frame_chunks)

\* C18 (as claimed): pending_drop is never negative in a streaming surgery
\* loop, whatever the postcut value given (negative ones included).
C18_PendingDropNonNegative ==
    variant \in {"mosh", "h264", "avidemux", "avidemux_all"} => pending_drop >= 0

\* C19: in the window/postcut loops (mosh.py, mosh_h264.py, classic) the
\* count of removed I-frames that the summary reports equals the number of
\* SYNC packets of the input that were classified and not written, and a run
\* whose window is accepted never fails, whatever the counts given and
\* whatever packets without timestamps it reads.
C19_RemovedCountIsDroppedSync ==
    variant \in WindowVariants =>
        /\ removed_count = Cardinality(SyncIdx \ EmittedIdx)
        /\ ~(variant = "classic" /\ ClassicInvalid(args)) => pc # "error"

\* C19 witness: a classic run that has ended after dropping a SYNC packet in
\* its window, with a duplication count above the limit it is clamped to
C19_Witness ==
    /\ variant = "classic"
    /\ pc = "done"
    /\ removed_count = 1
    /\ Cardinality(SyncIdx \ EmittedIdx) = 1
    /\ args.dup_count > DupLimit

\* Whether the command holds a token, and the value a key is configured with
HasToken(tok) == \E i \in DOMAIN cmd : cmd[i] = tok
HasFlagValue(flag, text) ==
    \E i \in 1 .. Len(cmd) - 1 : cmd[i] = flag /\ cmd[i + 1] = text
ConfigValue(k) ==
    IF \E i \in DOMAIN config : config[i].key = k
      THEN (CHOOSE it \in {config[i] : i \in DOMAIN config} : it.key = k).value
      ELSE Absent

\* C20 (as claimed): with ag_effect bloom and the bloom fields configured the
\* command holds --effect, bloom, --pivot-frame with the pivot,
\* --repeat-count, --kill-ratio, --keep-audio and no --pick-pivot; with
\* ag_effect classic and the classic fields configured it holds --drop-start,
\* --drop-end, --dup-at, --dup-count and neither --pivot-frame nor
\* --pick-pivot.
C20_FlagsOfSelectedEffect ==
    (variant = "wizard" /\ pc = "done") =>
        /\ (/\ ConfigValue("ag_effect") = PyStr("bloom")
            /\ ConfigValue("pivot_frame") = PyNum("42")
            /\ ConfigValue("repeat_count") # Absent
            /\ ConfigValue("kill_ratio") # Absent
            /\ ConfigValue("ag_keep_audio") = PyBool(TRUE))
           => /\ HasToken("--effect")
              /\ HasToken("bloom")
              /\ HasFlagValue("--pivot-frame", "42")
              /\ HasToken("--repeat-count")
              /\ HasToken("--kill-ratio")
              /\ HasToken("--keep-audio")
              /\ ~HasToken("--pick-pivot")
        /\ (/\ ConfigValue("ag_effect") = PyStr("classic")
            /\ ConfigValue("drop_start") # Absent
            /\ ConfigValue("drop_end") # Absent
            /\ ConfigValue("dup_at") # Absent
            /\ ConfigValue("dup_count") # Absent)
           => /\ HasToken("--drop-start")
              /\ HasToken("--drop-end")
              /\ HasToken("--dup-at")
              /\ HasToken("--dup-count")
              /\ ~HasToken("--pivot-frame")
              /\ ~HasToken("--pick-pivot")

\* C21: clamp_frame returns 0 when frame_count <= 0; otherwise a value in
\* [0, frame_count - 1]: 0 for a negative index, frame_count - 1 for an index
\* at or past frame_count, the index itself in between.
C21_ClampFrame ==
    (pc = "done" /\ helper.fn = "clamp_frame") =>
        LET r == helper.result[1]
            i == helper.frame_idx
            c == helper.frame_count
        IN  /\ c <= 0 => r = 0
            /\ c > 0 => /\ r \in 0 .. c - 1
                        /\ i < 0 => r = 0
                        /\ i >= c => r = c - 1
                        /\ i \in 0 .. c - 1 => r = i

\* C21 witness: an index past the end of a clip of several frames was clamped
C21_Witness ==
    /\ pc = "done"
    /\ helper.fn = "clamp_frame"
    /\ helper.frame_count > 1
    /\ helper.frame_idx > helper.frame_count
    /\ helper.result = <<helper.frame_count - 1>>

\* The frame index of one usable key frame time: round(time * fps) clamped
FrameOfTime(ts) ==
    LET p == ts.num * helper.fps
        lo == p \div ts.den
        rem == p % ts.den
        x == IF 2 * rem < ts.den THEN lo
             ELSE IF 2 * rem > ts.den THEN lo + 1
             ELSE IF lo % 2 = 0 THEN lo ELSE lo + 1
    IN  IF x < 0 THEN 0
        ELSE IF x > helper.frame_count - 1 THEN helper.frame_count - 1
        ELSE x

UsableTimes == {helper.times[k] : k \in {j \in DOMAIN helper.times : helper.times[j].isnum}}

\* C22 (as claimed): for every list of key frame times the result is
\* non-empty and strictly increasing, and each of its elements is
\* round(time * fps), clamped into [0, frame_count - 1], of a time of the list.
C22_EachFrameFromATime ==
    (pc = "done" /\ helper.fn = "keyframe_times_to_frames") =>
        LET r == helper.result
        IN  /\ r # <<>>
            /\ \A a, b \in DOMAIN r : a < b => r[a] < r[b]
            /\ \A a \in DOMAIN r : \E ts \in UsableTimes : r[a] = FrameOfTime(ts)

\* C22 (amended): the result is strictly increasing and holds exactly the
\* clamped round(time * fps) of the usable times of the list; it is [0] when
\* the list holds no usable time.
C22_FramesOfTimesOrZero ==
    (pc = "done" /\ helper.fn = "keyframe_times_to_frames") =>
        LET r == helper.result
        IN  /\ r # <<>>
            /\ \A a, b \in DOMAIN r : a < b => r[a] < r[b]
            /\ \A a \in DOMAIN r : r[a] \in 0 .. helper.frame_count - 1
            /\ UsableTimes # {} =>
                 {r[a] : a \in DOMAIN r} = {FrameOfTime(ts) : ts \in UsableTimes}
            /\ UsableTimes = {} => r = <<0>>

\* C22 witness: a time before 0, a time past the end and a repeated index
\* collapse: three usable times give fewer frames, the first and the last
C22_Witness ==
    /\ pc = "done"
    /\ helper.fn = "keyframe_times_to_frames"
    /\ Len(helper.times) = 3
    /\ \E a, b, c \in DOMAIN helper.times :
         /\ helper.times[a].isnum /\ helper.times[a].num < 0
         /\ helper.times[b].isnum /\ helper.times[b].num * helper.fps >
                                       helper.times[b].den * helper.frame_count
         /\ helper.times[c].isnum /\ helper.times[c].den = 2 /\ c \notin {a, b}
    /\ helper.frame_count = MaxFrame
    /\ helper.result = <<0, helper.frame_count - 1>>

\* C23: find_nearest_keyframe_frame returns frame_idx for an empty list;
\* otherwise the element of the list at the least distance from frame_idx,
\* and among equally near elements the one that comes first in the list.
C23_NearestKeyframe ==
    (pc = "done" /\ helper.fn = "find_nearest_keyframe_frame") =>
        LET r == helper.result[1]
            keys == helper.keyframe_frames
            i == helper.frame_idx
            Dist(k) == IF keys[k] >= i THEN keys[k] - i ELSE i - keys[k]
        IN  /\ keys = <<>> => r = i
            /\ keys # <<>> =>
                 \E k \in DOMAIN keys :
                   /\ r = keys[k]
                   /\ \A m \in DOMAIN keys : Dist(k) <= Dist(m)
                   /\ \A m \in 1 .. k - 1 : Dist(m) > Dist(k)

\* C23 witness: two different key frames are equally near, one on each side,
\* and the one listed first is returned although it is not the smaller one
C23_Witness ==
    /\ pc = "done"
    /\ helper.fn = "find_nearest_keyframe_frame"
    /\ Len(helper.keyframe_frames) >= 2
    /\ helper.keyframe_frames[1] = helper.frame_idx + 1
    /\ helper.keyframe_frames[2] = helper.frame_idx - 1
    /\ helper.result = <<helper.frame_idx + 1>>

\* C24: in avidemux_style with pframe_dup_start set, a non-keyframe packet
\* whose presentation time (pts * time_base, in seconds) is before the start
\* time is written, whatever the pending postcut count, and leaves the
\* pending count unchanged.
C24_KeptBeforeDupStart ==
    [][(/\ variant = "avidemux"
        /\ args.pframe_dup_start # NoStart
        /\ Len(input') = Len(input) + 1)
       => LET pkt == input'[Len(input')]
          IN  (/\ ~pkt.key
               /\ pkt.pts # None
               /\ pkt.pts * args.pframe_dup_start[2]
                    < args.pframe_dup_start[1] * TicksPerSecond)
              => /\ Len(out') = Len(out) + 1
                 /\ out'[Len(out')].src = Len(input')
                 /\ pending_drop' = pending_drop]_vars

\* The timestamps a written packet came in with: those of the packet read
\* for an emitted packet, none for a copy made by the duplication loop
IncomingPts(w) == IF w.copy THEN None ELSE input[w.src].pts
IncomingDts(w) == IF w.copy THEN None ELSE input[w.src].dts

\* max(incoming, or next + interval when it is missing; next + interval)
Rebased(incoming, next) ==
    LET floor == next + frame_ticks
        given == IF incoming # None THEN incoming ELSE floor
    IN  IF given >= floor THEN given ELSE floor

\* C25: in a classic run every packet written after the first, emitted or
\* duplicated, carries max(incoming or next + interval, next + interval) as
\* pts and as dts, next being the timestamp of the packet written before it;
\* so it lies at least one frame interval above the previous one, and no
\* written packet lies below the timestamp of the packet it was read as.
C25_StreamingRebase ==
    variant = "classic" =>
        /\ \A j \in 2 .. Len(out) :
             /\ out[j].pts = Rebased(IncomingPts(out[j]), out[j - 1].pts)
             /\ out[j].dts = Rebased(IncomingDts(out[j]), out[j - 1].dts)
             /\ out[j].pts >= out[j - 1].pts + frame_ticks
             /\ out[j].dts >= out[j - 1].dts + frame_ticks
        /\ \A j \in DOMAIN out :
             /\ input[out[j].src].pts # None => out[j].pts >= input[out[j].src].pts
             /\ input[out[j].src].dts # None => out[j].dts >= input[out[j].src].dts

\* C25 witness: a packet that came in with a pts not above the previous
\* written one was lifted, and copies were stamped after it
C25_Witness ==
    /\ variant = "classic"
    /\ \E j \in 2 .. Len(out) :
         /\ ~out[j].copy
         /\ input[out[j].src].pts # None
         /\ input[out[j].src].pts <= input[out[j - 1].src].pts
         /\ out[j].pts > input[out[j].src].pts
         /\ input[out[j].src].dts = None
    /\ \E j \in 2 .. Len(out) : out[j].copy /\ out[j - 1].copy

\* The two states of the surgery loops: the flag keep_first_i
\* (first_keyframe_seen, negated, in the classic loop)
AwaitingFirstSync == keep_first_i
Streaming == ~keep_first_i

\* C26: a surgery loop is in AWAITING_FIRST_SYNC until it writes its first
\* SYNC packet, moves to STREAMING in the very step that writes it, and never
\* goes back; while it is in AWAITING_FIRST_SYNC no SYNC packet has been
\* dropped and the pending postcut count is 0.
C26_TwoStates ==
    /\ [](variant \in Variants =>
            /\ AwaitingFirstSync <=> OutSync = {}
            /\ AwaitingFirstSync => (SyncIdx \ EmittedIdx = {} /\ pending_drop = 0))
    /\ [][(variant \in Variants) =>
            ((Streaming => Streaming')
             /\ ((AwaitingFirstSync /\ Streaming')
                   <=> (OutSync = {} /\ OutSync' # {})))]_vars

\* C26 witness: DELTA packets were written while the loop was waiting, the
\* first SYNC packet moved it to STREAMING, and a later SYNC packet was
\* dropped and armed the postcut count
C26_Witness ==
    /\ variant \in Variants
    /\ Streaming
    /\ SyncIdx # {}
    /\ \E k \in DeltaIdx : k < FirstSyncIdx /\ k \in EmittedIdx
    /\ FirstSyncIdx \in EmittedIdx
    /\ SyncIdx \ EmittedIdx # {}
    /\ pending_drop > 0

\* Positions of `out` that hold a copy made by the duplication loop
CopyIdx == {j \in DOMAIN out : out[j].copy}

\* The packets of the input that can trigger the duplication: written,
\* not a keyframe, at a time at or after dup_at
Triggers ==
    {k \in EmittedIdx : /\ ~input[k].key
                        /\ ClassicTime(input[k]) >= args.dup_at * TicksPerSecond}

\* C29: in a classic run with dup_at set every copy in the output is a copy
\* of one and the same packet, the first written non-keyframe packet whose
\* time is at or after dup_at; once that packet is written, exactly
\* min(dup_count, 20) copies (none when dup_count <= 0) follow it directly,
\* and there are no copies anywhere else. A keyframe or a packet that the
\* window dropped has no copies.
C29_DuplicatedOnce ==
    (variant = "classic" /\ args.dup_at # None) =>
        LET n == IF args.dup_count <= 0 THEN 0
                 ELSE IF args.dup_count <= DupLimit THEN args.dup_count ELSE DupLimit
        IN  IF Triggers = {}
              THEN CopyIdx = {}
              ELSE LET first == CHOOSE k \in Triggers : \A m \in Triggers : k <= m
                       at == CHOOSE j \in DOMAIN out : out[j].src = first /\ ~out[j].copy
                   IN  /\ CopyIdx = at + 1 .. at + n
                       /\ \A j \in CopyIdx : out[j].src = first
                       /\ pframes_duplicated = n
                       /\ dup_done

\* C29 witness: the copies were limited to 20, a keyframe at or after dup_at
\* came first and was written without copies, and a packet came after them
C29_Witness ==
    /\ variant = "classic"
    /\ args.dup_at # None
    /\ args.dup_count > DupLimit
    /\ Cardinality(CopyIdx) = DupLimit
    /\ \E k \in EmittedIdx : /\ input[k].key
                             /\ ClassicTime(input[k]) >= args.dup_at * TicksPerSecond
                             /\ \A m \in Triggers : k < m

\* The window/postcut loops of mosh.py and mosh_h264.py and the boundary
\* loops of avidemux_style.py and avidemux_style_all.py
SurgeryVariants == {"mosh", "h264", "avidemux", "avidemux_all"}

\* C30: the output of a window/postcut or boundary surgery run is a
\* subsequence of the input: every written packet is a packet that was read,
\* no input packet is written twice, and written packets keep the order
\* they were read in.
C30_OutputIsSubsequence ==
    variant \in SurgeryVariants =>
        /\ \A j \in DOMAIN out :
             /\ out[j].src \in DOMAIN input
             /\ ~out[j].copy
        /\ \A a, b \in DOMAIN out : a < b => out[a].src < out[b].src

\* C30 witness: a finished run that dropped a packet between two written ones
C30_Witness ==
    /\ variant \in SurgeryVariants
    /\ pc = "done"
    /\ Len(out) >= 2
    /\ \E a \in 1 .. Len(out) - 1 : out[a + 1].src > out[a].src + 1
    /\ out[Len(out)].src = Len(input)

\* What a command of the multi-pass run reads and writes, and its flags
ValueAfter(command, flag) ==
    command[(CHOOSE k \in 1 .. Len(command) - 1 : command[k] = flag) + 1]
Holds(command, flag) == \E k \in DOMAIN command : command[k] = flag
PrepFlags == {"--prep", "--prep-q", "--prep-gop", "--prep-fps"}

\* C27: in a multi-pass run the k-th command run is the one of pass k; pass 1
\* reads the user's input and every later pass reads the output of the pass
\* before it; the final output path is written by the last pass and by no
\* other; prep flags appear in the command of pass 1 only; a pass is started
\* only when all passes before it exited with 0, and a non-zero exit code
\* ends the run with failure.
C27_PassesInOrder ==
    variant = "multipass" =>
        LET runs == multipass.runs
            passes == multipass.passes
        IN  /\ Len(runs) <= Len(passes)
            /\ \A k \in DOMAIN runs :
                 LET command == runs[k].cmd
                 IN  /\ ValueAfter(command, "--in") =
                          IF k = 1 THEN multipass.input
                          ELSE ValueAfter(runs[k - 1].cmd, "--out")
                     /\ (ValueAfter(command, "--out") = PathOf(multipass.final))
                          <=> k = Len(passes)
                     /\ k > 1 => \A f \in PrepFlags : ~Holds(command, f)
                     /\ (k = 1 /\ multipass.base.aviglitch_prep) => Holds(command, "--prep")
                     /\ Holds(command, "--drop-start") <=> passes[k].drop # <<>>
                     /\ passes[k].drop # <<>> =>
                          /\ ValueAfter(command, "--drop-start") = passes[k].drop[1]
                          /\ ValueAfter(command, "--drop-end") = passes[k].drop[2]
                     /\ Holds(command, "--dup-at") <=> passes[k].dup # <<>>
                     /\ k < Len(runs) => runs[k].returncode = 0
                     /\ runs[k].returncode # 0 => pc = "error"
            /\ pc = "done" => /\ Len(runs) = Len(passes)
                              /\ \A k \in DOMAIN runs : runs[k].returncode = 0
            /\ pc = "error" => runs[Len(runs)].returncode # 0

\* C27 witness: a run with prep in which the second of three passes failed
C27_Witness ==
    /\ variant = "multipass"
    /\ multipass.base.aviglitch_prep
    /\ Len(multipass.passes) = 3
    /\ Len(multipass.runs) = 2
    /\ multipass.passes[1] # multipass.passes[2]
    /\ multipass.runs[1].returncode = 0
    /\ multipass.runs[2].returncode # 0
    /\ pc = "error"

\* C28: in the keyframe editor, after any key presses, the cursor row is in
\* [0, number of rows - 1], postcut is in [0, 30] and row 0 is not marked;
\* the drop list returned on ENTER is sorted, does not hold frame 0, and
\* holds exactly the frames f .. f + postcut of the marked rows' frames f.
C28_EditorBounds ==
    variant = "tui" =>
        /\ tui.sel \in 0 .. Len(tui.rows) - 1
        /\ tui.postcut \in 0 .. 30
        /\ 0 \notin tui.marked
        /\ tui.marked \subseteq 0 .. Len(tui.rows) - 1
        /\ pc = "done" =>
             LET d == tui.drop_frames
             IN  /\ \A j \in DOMAIN d : d[j] # 0
                 /\ \A a, b \in DOMAIN d : a < b => d[a] < d[b]
                 /\ {d[j] : j \in DOMAIN d}
                      = {f \in 0 .. Len(tui.rows) + tui.postcut :
                           \E m \in tui.marked : m <= f /\ f <= m + tui.postcut}

\* C28 witness: ENTER was pressed with the cursor on the last row, two rows
\* marked, one of them not an I row, and postcut at its limit
C28_Witness ==
    /\ variant = "tui"
    /\ pc = "done"
    /\ Len(tui.rows) >= 3
    /\ tui.sel = Len(tui.rows) - 1
    /\ tui.postcut = 30
    /\ Cardinality(tui.marked) >= 2
    /\ \E m \in tui.marked : ~tui.rows[m + 1]
    /\ Len(tui.drop_frames) = 30 + 2

====
